---- MODULE Spec2Model ----
(***************************************************************************)
(* Scrape orchestration and ingest reconciliation of the vehicle inventory *)
(* backend: ScrapeOrchestrator.run_job and the per-dealer _process_task    *)
(* coroutines (services/scrape_orchestrator.py), the reconciler            *)
(* upsert_observations_and_listings (services/ingest.py), the transaction  *)
(* scope session_scope (db/session.py) and build_inventory_url             *)
(* (parsers/url_builder.py).                                               *)
(*                                                                         *)
(* Nullable columns and optional dict entries are modelled as sequences of *)
(* length 0 (None) or 1 (a value).  Timestamps and prices are integers.    *)
(* A coroutine step of the model runs from one suspension point of the     *)
(* coroutine (an await that really yields) to the next.                    *)
(***************************************************************************)
EXTENDS Integers, Sequences, FiniteSets, TLC

None == <<>>
Some(x) == <<x>>
IsNone(o) == o = <<>>
Val(o) == o[1]

Min2(a, b) == IF a <= b THEN a ELSE b
Max2(a, b) == IF a >= b THEN a ELSE b

(***************************************************************************)
(* Bounds of the exploration.                                              *)
(***************************************************************************)
MaxJobs == 2          \* run_job calls in one behaviour
MaxCycles == 3        \* run_job calls in one behaviour of the scrape cycles
MaxCancelJobs == 1    \* run_job calls in one behaviour with cancellation
MaxBackendJobs == 1   \* run_job calls in one behaviour with a dealer without parser
GateTasks == 51       \* tasks of one job contending for the concurrency gate
BucketCallers == 3    \* coroutines calling TokenBucket.acquire
BucketCapacity == 2   \* capacity of the TokenBucket they share
MaxWindow == 2        \* longest interval, in ticks, over which grants are counted
MaxDealers == 2       \* length of the dealers list passed to run_job
MaxAttemptsArg == 2   \* largest max_attempts argument of the constructor
MaxBatch == 2         \* rows in one batch handed to the reconciler
MaxReconciles == 2    \* reconciler calls in one behaviour of the price batches
MaxSeenCalls == 3     \* reconciler and absence calls in one behaviour of the seen windows
MaxAuditCalls == 3    \* reconciler and absence calls in one behaviour of the audit trail
MaxDeltaCalls == 3    \* reconciler calls in one behaviour of the price deltas
MaxScopeCalls == 3    \* reconciler and absence calls in one behaviour of the absence scope
MaxParams == 3        \* parameters in the query of an inventory URL template
MaxPostAttempts == 3  \* largest max_attempts argument of the fetch client
MaxOrderCalls == 2    \* pairs of reconciler calls in one behaviour of the seen times
MaxMissCalls == 4     \* scrapes of one dealer and model in one behaviour of the misses
MaxTime == 2          \* latest observed_at, first_seen_at or last_seen_at of a row

(***************************************************************************)
(* Program constants.                                                      *)
(***************************************************************************)
MAX_CONCURRENCY == 50
RPM_LIMIT == 500
SOURCE_RANK_INVENTORY == 50
DEFAULT_SOURCE_RANK == 100
SOURCE_RANK_UPLOAD == 80
SmartPathCandidates == 4

VINs == {"V1", "V2"}
DealerIds == {1, 2}

(***************************************************************************)
(* URL builder.  A dealer row is abstracted to its backend_type, the set   *)
(* of placeholders its inventory_url_template uses and the dealer tokens   *)
(* that have a value (scraping_config.tokens and the row's own columns).   *)
(* A model of the registry has a model_id only when models.yaml gives it a *)
(* dealer_socket_id.                                                       *)
(***************************************************************************)
ModelTokens == {"model_slug", "model_plus", "model_name_plus", "model_name_encoded",
                "model_encoded", "model_underscore", "model_series"}

MODEL_REGISTRY ==
  [m \in {"4Runner", "Tacoma"} |->
     IF m = "4Runner" THEN ModelTokens \cup {"model_id"} ELSE ModelTokens]

ModelArgs == {"4Runner", "Tacoma", "Edsel"}

\* The dealers of the catalog: those of DealerIds and one whose backend_type
\* is not a key of PARSER_REGISTRY.
CatalogIds == DealerIds \cup {3}

DealerCatalog ==
  [d \in CatalogIds |->
     IF d = 1
       THEN [id |-> 1, backend_type |-> "DEALER_INSPIRE",
             placeholders |-> {"homepage_url", "model_slug", "city_code"},
             tokens |-> {"homepage_url"}]
       ELSE IF d = 2
       THEN [id |-> 2, backend_type |-> "DEALER_SOCKET",
             placeholders |-> {"homepage_url", "model_id"},
             tokens |-> {"homepage_url"}]
       ELSE [id |-> d, backend_type |-> "ELEADS",
             placeholders |-> {"homepage_url", "model_slug"},
             tokens |-> {"homepage_url"}]]

\* Variant: placeholders without a value are left in the URL.
build_inventory_url_unchecked(dealer_row, model) ==
  IF model \notin DOMAIN MODEL_REGISTRY
    THEN [ok |-> FALSE, url |-> "", error |-> "Unsupported model"]
    ELSE [ok |-> TRUE, url |-> "inventory-url", error |-> ""]

\* build_inventory_url: the URL on success, the exception message otherwise.
build_inventory_url(dealer_row, model) ==
  IF model \notin DOMAIN MODEL_REGISTRY
    THEN [ok |-> FALSE, url |-> "", error |-> "Unsupported model"]
    ELSE LET base_tokens == dealer_row.tokens \cup MODEL_REGISTRY[model]
             missing == dealer_row.placeholders \ base_tokens
             unexpected == missing \ {"city_code"}
         IN IF unexpected # {}
              THEN [ok |-> FALSE, url |-> "", error |-> "Missing placeholder token(s)"]
              ELSE [ok |-> TRUE, url |-> "inventory-url", error |-> ""]

(***************************************************************************)
(* build_inventory_url on the text of a template.  A text is a sequence of *)
(* characters; a placeholder {name} of a template is one element of it.    *)
(* A template is a path and a query of parameters: cy={city_code}, md=1    *)
(* and dc={dealer_code}.                                                   *)
(***************************************************************************)
Placeholders == {"{city_code}", "{dealer_code}"}

CY == <<"c", "y", "=", "{city_code}">>
MD == <<"m", "d", "=", "1">>
DC == <<"d", "c", "=", "{dealer_code}">>

UrlParams == {CY, MD, DC}

RECURSIVE JoinQuery(_)
JoinQuery(ps) ==
  IF ps = <<>> THEN <<>>
  ELSE IF Len(ps) = 1 THEN ps[1]
  ELSE ps[1] \o <<"&">> \o JoinQuery(Tail(ps))

UrlPath == <<"/", "i">>

TemplateOf(ps) == UrlPath \o (IF ps = <<>> THEN <<>> ELSE <<"?">> \o JoinQuery(ps))

HomepageUrl == <<"h", "t", "t", "p", "s", ":", "/", "/", "d">>

\* base_tokens.get(key) is None or "".
TokenMissing(base_tokens, key) ==
  IsNone(base_tokens[key]) \/ Val(base_tokens[key]) = <<>>

\* PLACEHOLDER_PATTERN.sub(replace, tpl)
RECURSIVE substitute(_, _)
substitute(tpl, base_tokens) ==
  IF tpl = <<>> THEN <<>>
  ELSE (IF Head(tpl) \in Placeholders
          THEN (IF TokenMissing(base_tokens, Head(tpl)) THEN <<>>
                ELSE Val(base_tokens[Head(tpl)]))
          ELSE <<Head(tpl)>>)
         \o substitute(Tail(tpl), base_tokens)

missing_tokens(tpl, base_tokens) ==
  { tpl[i] : i \in { j \in DOMAIN tpl :
                       tpl[j] \in Placeholders /\ TokenMissing(base_tokens, tpl[j]) } }

\* ([?&])cy= at position i of url.
MatchCy(url, i) ==
  /\ i + 3 <= Len(url)
  /\ url[i] \in {"?", "&"}
  /\ url[i + 1] = "c" /\ url[i + 2] = "y" /\ url[i + 3] = "="

AmpOrEnd(url, j) == j > Len(url) \/ url[j] = "&"

\* re.sub(r"([?&])cy=(?:(?=&)|$)", "?" if group 1 is "?" else "", url)
RECURSIVE strip_cy(_, _)
strip_cy(url, i) ==
  IF i > Len(url) THEN <<>>
  ELSE IF MatchCy(url, i) /\ AmpOrEnd(url, i + 4)
    THEN (IF url[i] = "?" THEN <<"?">> ELSE <<>>) \o strip_cy(url, i + 4)
    ELSE <<url[i]>> \o strip_cy(url, i + 1)

\* re.sub(r"([?&])cy=(?:&|$)", ...): the '&' that follows is consumed.
RECURSIVE strip_cy_amp(_, _)
strip_cy_amp(url, i) ==
  IF i > Len(url) THEN <<>>
  ELSE IF MatchCy(url, i) /\ AmpOrEnd(url, i + 4)
    THEN (IF url[i] = "?" THEN <<"?">> ELSE <<>>)
           \o strip_cy_amp(url, IF i + 4 <= Len(url) THEN i + 5 ELSE i + 4)
    ELSE <<url[i]>> \o strip_cy_amp(url, i + 1)

\* url.replace("?&", "?")
RECURSIVE replace_qamp(_, _)
replace_qamp(url, i) ==
  IF i > Len(url) THEN <<>>
  ELSE IF url[i] = "?" /\ i + 1 <= Len(url) /\ url[i + 1] = "&"
    THEN <<"?">> \o replace_qamp(url, i + 2)
    ELSE <<url[i]>> \o replace_qamp(url, i + 1)

\* re.sub(r"&&+", "&", url)
RECURSIVE collapse_amp(_, _)
collapse_amp(url, i) ==
  IF i > Len(url) THEN <<>>
  ELSE IF url[i] = "&" /\ i > 1 /\ url[i - 1] = "&"
    THEN collapse_amp(url, i + 1)
    ELSE <<url[i]>> \o collapse_amp(url, i + 1)

\* url.rstrip("?&")
RECURSIVE rstrip(_)
rstrip(url) ==
  IF url # <<>> /\ url[Len(url)] \in {"?", "&"}
    THEN rstrip(SubSeq(url, 1, Len(url) - 1))
    ELSE url

\* Variant: "?&" is left as it is.
clean_missing_keep_qamp(url, missing) ==
  rstrip(collapse_amp(
    IF "{city_code}" \in missing
      THEN strip_cy_amp(strip_cy(url, 1), 1)
      ELSE url, 1))

\* The clean-up made when a placeholder was missing.
clean_missing(url, missing) ==
  rstrip(collapse_amp(replace_qamp(
    IF "{city_code}" \in missing
      THEN strip_cy_amp(strip_cy(url, 1), 1)
      ELSE url, 1), 1))

\* urljoin of a homepage without a path and a path from the root.
urljoin(base, url) == base \o url

\* build_inventory_url for a relative template of a supported model: the URL,
\* or raised when a placeholder other than city_code has no value.
inventory_url_text(tpl, base_tokens) ==
  IF missing_tokens(tpl, base_tokens) \ {"{city_code}"} # {}
    THEN [raised |-> TRUE, url |-> <<>>]
    ELSE [raised |-> FALSE,
          url |-> urljoin(HomepageUrl,
                          IF missing_tokens(tpl, base_tokens) # {}
                            THEN clean_missing(substitute(tpl, base_tokens),
                                               missing_tokens(tpl, base_tokens))
                            ELSE substitute(tpl, base_tokens))]

(***************************************************************************)
(* Relational store.  db = [vehicles, listings, observations, price_events]*)
(* vehicles[vin] and listings[<<dealer_id, vin>>] are None when the row    *)
(* does not exist.                                                         *)
(***************************************************************************)
ListingKeys == DealerIds \X VINs

EmptyDb ==
  [vehicles |-> [v \in VINs |-> None],
   listings |-> [k \in ListingKeys |-> None],
   observations |-> <<>>,
   price_events |-> <<>>]

\* A session: the tables as the transaction sees them, the listings added
\* to the session and not yet flushed, and whether a statement has raised.
OpenSession(db) ==
  [vehicles |-> db.vehicles, listings |-> db.listings,
   observations |-> db.observations, price_events |-> db.price_events,
   pending |-> <<>>, err |-> FALSE]

\* session.flush(): INSERT the pending listings; two pending rows with the
\* same primary key (or one that already exists) violate it and raise.
PendingIndex(S, k) == CHOOSE i \in 1..Len(S.pending) : S.pending[i].key = k

Flush(S) ==
  LET n == Len(S.pending)
      dup == \E i \in 1..n :
               \/ \E j \in 1..n : i # j /\ S.pending[i].key = S.pending[j].key
               \/ ~IsNone(S.listings[S.pending[i].key])
  IN IF dup
       THEN [S EXCEPT !.err = TRUE]
       ELSE [S EXCEPT
              !.listings = [k \in ListingKeys |->
                              IF \E i \in 1..n : S.pending[i].key = k
                                THEN Some(S.pending[PendingIndex(S, k)].row)
                                ELSE S.listings[k]],
              !.pending = <<>>]

\* _merge_vehicle: session.get, create-and-flush when absent, then overwrite
\* the mutable fields that arrive non-null.
MergedVehicle(old, vehicle_data) ==
  [model |-> IF vehicle_data.model # "" THEN vehicle_data.model ELSE old.model,
   msrp |-> IF ~IsNone(vehicle_data.msrp) THEN vehicle_data.msrp ELSE old.msrp]

MergeInto(S1, vin, vehicle_data) ==
  IF S1.err THEN S1
  ELSE [S1 EXCEPT !.vehicles[vin] = Some(MergedVehicle(Val(S1.vehicles[vin]), vehicle_data))]

merge_vehicle(S, vin, vehicle_data) ==
  MergeInto(IF IsNone(S.vehicles[vin])
              THEN Flush([S EXCEPT !.vehicles[vin] =
                            Some([model |-> vehicle_data.model, msrp |-> None])])
              ELSE S,
            vin, vehicle_data)

\* Variant: the MSRP stands in for the price whenever the row has an MSRP.
RowAssumedWithMsrp(row) == ~IsNone(row.msrp)

\* advertised_price of a row: the MSRP stands in for a price that is absent.
RowAssumed(row) == IsNone(row.advertised_price) /\ ~IsNone(row.msrp)

RowPrice(row) == IF RowAssumed(row) THEN row.msrp ELSE row.advertised_price

RowStatus(row) == IF row.status = "" THEN "available" ELSE row.status

RowFirstSeen(row) ==
  IF IsNone(row.first_seen_at) THEN row.observed_at ELSE Val(row.first_seen_at)

RowLastSeen(row) ==
  IF IsNone(row.last_seen_at) THEN row.observed_at ELSE Val(row.last_seen_at)

\* models.Observation(...) of a row.
ObservationOf(row) ==
  [job_id |-> row.job_id, observed_at |-> row.observed_at,
   dealer_id |-> row.dealer_id, vin |-> row.vin,
   advertised_price |-> RowPrice(row), msrp |-> row.msrp,
   ad_price_equals_msrp |-> RowAssumed(row), source |-> row.source]

\* price - msrp when both are known, else the value given.
PriceDelta(price, msrp_value, otherwise) ==
  IF ~IsNone(price) /\ ~IsNone(msrp_value)
    THEN Some(Val(price) - Val(msrp_value))
    ELSE otherwise

\* if not listing: models.Listing(...)
CreatedListing(row, msrp_value) ==
  [status |-> RowStatus(row),
   advertised_price |-> RowPrice(row),
   price_delta_msrp |-> PriceDelta(RowPrice(row), msrp_value, None),
   first_seen_at |-> RowFirstSeen(row),
   last_seen_at |-> RowLastSeen(row),
   source_rank |-> IF IsNone(row.source_rank) \/ row.source_rank = Some(0)
                     THEN Some(DEFAULT_SOURCE_RANK)
                     ELSE row.source_rank]

\* else: the existing listing updated from the row.
NewPrice(old, row) ==
  IF ~IsNone(RowPrice(row)) THEN RowPrice(row) ELSE old.advertised_price

\* Variant: the rank of the row replaces the rank of the listing.
UpdatedListingRowRank(old, row, msrp_value) ==
  [status |-> RowStatus(row),
   advertised_price |-> NewPrice(old, row),
   price_delta_msrp |-> PriceDelta(NewPrice(old, row), msrp_value, old.price_delta_msrp),
   first_seen_at |-> Min2(old.first_seen_at, RowFirstSeen(row)),
   last_seen_at |-> Max2(old.last_seen_at, RowLastSeen(row)),
   source_rank |-> IF ~IsNone(row.source_rank) THEN row.source_rank ELSE old.source_rank]

\* Variant: last_seen_at is the one of the row applied last.
UpdatedListingLastWriter(old, row, msrp_value) ==
  [status |-> RowStatus(row),
   advertised_price |-> NewPrice(old, row),
   price_delta_msrp |-> PriceDelta(NewPrice(old, row), msrp_value, old.price_delta_msrp),
   first_seen_at |-> Min2(old.first_seen_at, RowFirstSeen(row)),
   last_seen_at |-> RowLastSeen(row),
   source_rank |-> old.source_rank]

\* Variant: an observation leaves the status of the listing as it was.
UpdatedListingKeepsStatus(old, row, msrp_value) ==
  [status |-> old.status,
   advertised_price |-> NewPrice(old, row),
   price_delta_msrp |-> PriceDelta(NewPrice(old, row), msrp_value, old.price_delta_msrp),
   first_seen_at |-> Min2(old.first_seen_at, RowFirstSeen(row)),
   last_seen_at |-> Max2(old.last_seen_at, RowLastSeen(row)),
   source_rank |-> IF ~IsNone(row.source_rank)
                      /\ (IsNone(old.source_rank)
                            \/ Val(row.source_rank) < Val(old.source_rank))
                     THEN row.source_rank
                     ELSE old.source_rank]

UpdatedListing(old, row, msrp_value) ==
  [status |-> RowStatus(row),
   advertised_price |-> NewPrice(old, row),
   price_delta_msrp |-> PriceDelta(NewPrice(old, row), msrp_value, old.price_delta_msrp),
   first_seen_at |-> Min2(old.first_seen_at, RowFirstSeen(row)),
   last_seen_at |-> Max2(old.last_seen_at, RowLastSeen(row)),
   source_rank |-> IF ~IsNone(row.source_rank)
                      /\ (IsNone(old.source_rank)
                            \/ Val(row.source_rank) < Val(old.source_rank))
                     THEN row.source_rank
                     ELSE old.source_rank]

\* Variant: an event for every priced row of a priced listing.
PriceChangedOrSame(old, row) ==
  /\ ~IsNone(RowPrice(row))
  /\ ~IsNone(old.advertised_price)

\* A PriceEvent is written when both prices are known and differ.
PriceChanged(old, row) ==
  /\ ~IsNone(RowPrice(row))
  /\ ~IsNone(old.advertised_price)
  /\ RowPrice(row) # old.advertised_price

PriceEventOf(old, row) ==
  [dealer_id |-> row.dealer_id, vin |-> row.vin, observed_at |-> row.observed_at,
   old_price |-> Val(old.advertised_price), new_price |-> Val(RowPrice(row)),
   delta |-> Val(RowPrice(row)) - Val(old.advertised_price)]

UpsertListing(S2, row, key, msrp_value) ==
  IF IsNone(S2.listings[key])
    THEN [S2 EXCEPT !.pending =
            Append(@, [key |-> key, row |-> CreatedListing(row, msrp_value)])]
    ELSE [S2 EXCEPT
            !.listings[key] = Some(UpdatedListing(Val(S2.listings[key]), row, msrp_value)),
            !.price_events = IF PriceChanged(Val(S2.listings[key]), row)
                               THEN Append(@, PriceEventOf(Val(S2.listings[key]), row))
                               ELSE @]

\* Variant: an observation only for a row that has a price.
UpsertMergedPricedOnly(S1, row) ==
  IF S1.err THEN S1
  ELSE UpsertListing(IF IsNone(RowPrice(row)) THEN S1
                     ELSE [S1 EXCEPT !.observations = Append(@, ObservationOf(row))],
                     row, <<row.dealer_id, row.vin>>,
                     IF ~IsNone(row.msrp) THEN row.msrp ELSE Val(S1.vehicles[row.vin]).msrp)

UpsertMerged(S1, row) ==
  IF S1.err THEN S1
  ELSE UpsertListing([S1 EXCEPT !.observations = Append(@, ObservationOf(row))],
                     row, <<row.dealer_id, row.vin>>,
                     IF ~IsNone(row.msrp) THEN row.msrp ELSE Val(S1.vehicles[row.vin]).msrp)

\* The body of the "for row in rows" loop of upsert_observations_and_listings.
UpsertRow(S, row) == UpsertMerged(merge_vehicle(S, row.vin, row.vehicle), row)

\* The loop over the rows; fail_at = k > 0 makes the store raise when row k
\* is reached (k = Len(rows) + 1: at the commit), 0 lets every statement run.
RECURSIVE UpsertRows(_, _, _, _)
UpsertRows(S, rows, i, fail_at) ==
  IF S.err \/ i > Len(rows) THEN S
  ELSE IF i = fail_at THEN [S EXCEPT !.err = TRUE]
  ELSE UpsertRows(UpsertRow(S, rows[i]), rows, i + 1, fail_at)

Tables(S) ==
  [vehicles |-> S.vehicles, listings |-> S.listings,
   observations |-> S.observations, price_events |-> S.price_events]

\* Variant: what the statements wrote stays when the block raises.
session_scope_no_rollback(db, S, fail_commit) ==
  [db |-> Tables(S), raised |-> S.err \/ Flush(S).err \/ fail_commit]

\* session_scope: commit when the block ends normally (the commit flushes
\* first and may itself raise), roll back and re-raise otherwise.
Committed(db, F, fail_commit) ==
  [db |-> IF F.err \/ fail_commit THEN db ELSE Tables(F),
   raised |-> F.err \/ fail_commit]

session_scope(db, S, fail_commit) ==
  Committed(db, IF S.err THEN S ELSE Flush(S), fail_commit)

\* upsert_observations_and_listings(rows, source)
upsert_observations_and_listings(db, rows, fail_at) ==
  IF rows = <<>>
    THEN [db |-> db, raised |-> FALSE]
    ELSE session_scope(db, UpsertRows(OpenSession(db), rows, 1, fail_at),
                       fail_at = Len(rows) + 1)

\* Variant: the rank of a listing is not looked at.
AbsenceSelectedAnyRank(S, k, dealer_id, model) ==
  /\ k[1] = dealer_id
  /\ ~IsNone(S.listings[k])
  /\ ~IsNone(S.vehicles[k[2]])
  /\ Val(S.vehicles[k[2]]).model = model

\* The listings the absence reconciler selects: the dealer's listings joined
\* to a vehicle of the model, with source_rank NULL or <= the inventory rank.
AbsenceSelected(S, k, dealer_id, model) ==
  /\ k[1] = dealer_id
  /\ ~IsNone(S.listings[k])
  /\ ~IsNone(S.vehicles[k[2]])
  /\ Val(S.vehicles[k[2]]).model = model
  /\ \/ IsNone(Val(S.listings[k]).source_rank)
     \/ Val(Val(S.listings[k]).source_rank) <= SOURCE_RANK_INVENTORY

\* Variant: a missing listing is never escalated.
AbsentStatusNoEscalation(current_status) ==
  IF current_status = "sold" THEN "sold" ELSE "missing"

\* Variant: a sold listing that is missed again goes back to missing.
AbsentStatusSoldReset(current_status) ==
  IF current_status = "missing" THEN "sold" ELSE "missing"

\* The status an unobserved listing gets: sold stays, missing becomes sold,
\* anything else becomes missing.
AbsentStatus(current_status) ==
  IF current_status = "sold" THEN "sold"
  ELSE IF current_status = "missing" THEN "sold"
  ELSE "missing"

\* Variant: nothing is marked when no VIN was observed.
MarkAbsentUnlessEmpty(S, dealer_id, model, observed_vins) ==
  IF observed_vins = {}
    THEN S
    ELSE [S EXCEPT !.listings =
            [k \in ListingKeys |->
               IF AbsenceSelected(S, k, dealer_id, model) /\ k[2] \notin observed_vins
                 THEN Some([Val(S.listings[k]) EXCEPT !.status = AbsentStatus(@)])
                 ELSE S.listings[k]]]

\* The loop of _mark_absent_listings over the selected listings.
MarkAbsent(S, dealer_id, model, observed_vins) ==
  [S EXCEPT !.listings =
     [k \in ListingKeys |->
        IF AbsenceSelected(S, k, dealer_id, model) /\ k[2] \notin observed_vins
          THEN Some([Val(S.listings[k]) EXCEPT !.status = AbsentStatus(@)])
          ELSE S.listings[k]]]

\* _mark_absent_listings(dealer_id, model, observed_vins, observed_at);
\* fail makes the store raise inside the transaction.
mark_absent_listings(db, dealer_id, model, observed_vins, fail) ==
  session_scope(db, MarkAbsent(OpenSession(db), dealer_id, model, observed_vins), fail)

(***************************************************************************)
(* Fetch client and parsers, as the orchestrator sees them.  A fetch ends  *)
(* with a FirecrawlRetryableError, another FirecrawlError, an exception of *)
(* another class, or a FirecrawlResult; a result is abstracted to what the *)
(* dealer's parser makes of it (rows, or a parser exception) and whether   *)
(* it carries any content.                                                 *)
(***************************************************************************)
ParsedRow(vin, price, status) ==
  [vin |-> vin, advertised_price |-> price, msrp |-> None, status |-> status, model |-> ""]

\* api: the page carries the configuration of the backend's inventory API.
Pages ==
  { [parse |-> "ok", content |-> TRUE, api |-> FALSE, rows |-> <<>>],
    [parse |-> "ok", content |-> FALSE, api |-> FALSE, rows |-> <<>>],
    [parse |-> "ok", content |-> TRUE, api |-> TRUE, rows |-> <<>>],
    [parse |-> "ok", content |-> TRUE, api |-> FALSE,
     rows |-> <<ParsedRow("V1", Some(2), "")>>],
    [parse |-> "ok", content |-> TRUE, api |-> FALSE,
     rows |-> <<ParsedRow("V2", Some(1), "sold")>>],
    [parse |-> "ok", content |-> TRUE, api |-> FALSE,
     rows |-> <<ParsedRow("V1", Some(2), ""), ParsedRow("V1", Some(1), "")>>],
    [parse |-> "error", content |-> TRUE, api |-> FALSE, rows |-> <<>>] }

NoPage == [parse |-> "none", content |-> FALSE, api |-> FALSE, rows |-> <<>>]

\* What the inventory API of a backend answers to the follow-up request.
ApiRows == { <<>>, <<ParsedRow("V1", Some(1), "")>> }

\* Backends whose empty parse is followed up through their inventory API.
API_FOLLOW_UP_BACKENDS == {"CDK", "CDK_GLOBAL", "DEALER_INSPIRE", "DEALER_ALCHEMY",
                           "DEALER_VENOM", "FOX_DEALER"}

\* FirecrawlRetryableError is built with a formatted, non-empty message;
\* FirecrawlError also wraps str() of a transport error, which may be empty.
RetryableMessages == {"Firecrawl returned 429"}
TerminalMessages == {"", "Invalid JSON from Firecrawl"}
ParseErrorMessage == "parser error"

PARSER_REGISTRY == {"DEALER_INSPIRE", "DEALER_COM", "DEALERON", "CDK", "CDK_GLOBAL",
                    "DEALER_SOCKET", "SMARTPATH", "TEAM_VELOCITY", "DEALER_ALCHEMY",
                    "DEALER_VENOM", "FOX_DEALER"}

(***************************************************************************)
(* State.                                                                  *)
(***************************************************************************)
VARIABLES
  db,            \* vehicles, listings, observations, price_events
  job,           \* the scrape_jobs row of the latest run_job (None before)
  tasks,         \* the scrape_tasks rows of that job, in creation order
  jobNo,         \* number of run_job calls made
  runPc,         \* run_job: "idle", "gather", "returned", "raised"
  runDealers,    \* its dealers argument (dealer ids of the catalog)
  runModel,      \* its model argument
  summary,       \* the dict it returned
  max_attempts,  \* ScrapeOrchestrator.max_attempts
  sem,           \* value of the concurrency semaphore
  clock,         \* datetime.now, at the resolution of one tick per job
  tpc,           \* per task: where its _process_task coroutine is suspended
  attempt,       \* per task: local attempt
  last_error,    \* per task: local last_error
  observed_at,   \* per task: local observed_at
  fetched,       \* per task: the FirecrawlResult in hand, with the rows
  results,       \* per task: status of the dict _process_task returned
  fetch_log,     \* history: per task, the outcomes of its fetch calls
  acquired,      \* history: per task, tokens it took from the bucket
  steps,         \* history: per task, what it did after fetching
  fault,         \* history: per task, the operation that raised
  misses,        \* history: per listing, consecutive absence cycles
  gate,          \* the concurrency gate under many tasks: tasks per phase
  bucket,        \* a TokenBucket and the callers of its acquire
  replay,        \* the reconciler called on its own: the batches applied
  io,            \* one task's calls to the bucket, the gate and the network
  chain,         \* one task from its fetched page through the fallback parsers
  post,          \* one call of FirecrawlClient._post
  meter,         \* history: the tokens the bucket granted in an interval of time
  urlCall        \* build_inventory_url on the text of a template: its last call

vars == <<db, job, tasks, jobNo, runPc, runDealers, runModel, summary, max_attempts,
          sem, clock, tpc, attempt, last_error, observed_at, fetched, results,
          fetch_log, acquired, steps, fault, misses, gate, bucket, replay, io, chain, post, meter, urlCall>>

\* The variables of the orchestrator's jobs, and the others.
jobVars == <<job, tasks, jobNo, runPc, runDealers, runModel, summary, max_attempts,
             sem, clock, tpc, attempt, last_error, observed_at, fetched, results,
             fetch_log, acquired, steps, fault, misses>>

auxVars == <<gate, bucket, replay, io, chain, post, meter, urlCall>>

runVars == <<job, jobNo, runPc, runDealers, runModel, summary, max_attempts, clock>>

TaskIds == 1..MaxDealers

\* run_job is given distinct dealers of the catalog, here in id order.
DealerLists ==
  UNION { {l \in [1..n -> DealerIds] : \A i, j \in 1..n : i < j => l[i] < l[j]} :
          n \in 1..MaxDealers }

\* The listing the store holds before the first job, as the orchestrator's
\* test seeds it: dealer 1, a 4Runner, available, source_rank 50.
SeedListing ==
  [status |-> "available", advertised_price |-> None, price_delta_msrp |-> None,
   first_seen_at |-> 0, last_seen_at |-> 0, source_rank |-> Some(SOURCE_RANK_INVENTORY)]

SeedDb ==
  [EmptyDb EXCEPT !.vehicles["V1"] = Some([model |-> "4Runner", msrp |-> None]),
                  !.listings[<<1, "V1">>] = Some(SeedListing)]

GateIdle == [waiting |-> 0, fetching |-> 0, fallback |-> 0, done |-> 0]

\* TokenBucket.__init__: a full bucket, a free lock.  Time is counted in
\* ticks, the time in which the bucket gains one token; elapsed is the time
\* since self.last, which matters only up to the time that fills the bucket.
Callers == 1..BucketCallers

BucketIdle ==
  [tokens |-> BucketCapacity, elapsed |-> 0, holder |-> 0, waiters |-> <<>>,
   pc |-> [c \in Callers |-> "idle"], n |-> [c \in Callers |-> 0]]

\* No call of the reconciler yet: rows is the batch of the last call, committed
\* whether its transaction committed, op the kind of the last call.
ReplayIdle == [rows |-> <<>>, committed |-> FALSE, calls |-> 0, op |-> "none"]

\* _process_task not called yet.
IoIdle == [pc |-> "idle", backend |-> "", attempt |-> 0, urls |-> 0, log |-> <<>>]

\* A fetched page as the parsers see it: the markers its lowercased raw
\* content contains, the parsers that raise their parse error on it and the
\* parsers that return rows from it (any other parser returns no rows).
NoContent == [markers |-> {}, raises |-> {}, rows |-> {}]

\* _process_task not called yet.  tried is the sequence of the parsers run
\* and of the fetches issued ("fetch"), in the order of the calls.
ChainIdle ==
  [pc |-> "idle", backend |-> "", has_homepage |-> FALSE, page |-> NoContent,
   tried |-> <<>>, urls |-> 0, fetches |-> 0, has_rows |-> FALSE,
   effective_backend |-> "", payload_backend |-> "", status |-> "", error |-> ""]

\* _post not called yet.  responses is the sequence of what the transport
\* answered to the posts made so far.
PostIdle == [pc |-> "idle", max_attempts |-> 0, attempts |-> 0, responses |-> <<>>,
             last_error |-> "", waits |-> 0, raised |-> "", message |-> ""]

\* No interval is being measured.
MeterIdle == [open |-> FALSE, T |-> 0, granted |-> 0]

\* build_inventory_url not called yet.
UrlIdle == [params |-> <<>>, city_code |-> None, dealer_code |-> None,
            raised |-> FALSE, url |-> <<>>]

Init ==
  /\ db = SeedDb
  /\ gate = GateIdle
  /\ bucket = BucketIdle
  /\ replay = ReplayIdle
  /\ urlCall = UrlIdle
  /\ meter = MeterIdle
  /\ chain = ChainIdle
  /\ post = PostIdle
  /\ io = IoIdle
  /\ job = None
  /\ tasks = <<>>
  /\ jobNo = 0
  /\ runPc = "idle"
  /\ runDealers = <<>>
  /\ runModel = ""
  /\ summary = None
  /\ max_attempts \in {Max2(1, a) : a \in 0..MaxAttemptsArg}
  /\ sem = MAX_CONCURRENCY
  /\ clock = 1
  /\ tpc = [t \in TaskIds |-> "none"]
  /\ attempt = [t \in TaskIds |-> 0]
  /\ last_error = [t \in TaskIds |-> ""]
  /\ observed_at = [t \in TaskIds |-> 0]
  /\ fetched = [t \in TaskIds |-> NoPage]
  /\ results = [t \in TaskIds |-> ""]
  /\ fetch_log = [t \in TaskIds |-> <<>>]
  /\ acquired = [t \in TaskIds |-> 0]
  /\ steps = [t \in TaskIds |-> {}]
  /\ fault = [t \in TaskIds |-> ""]
  /\ misses = [k \in ListingKeys |-> 0]

(***************************************************************************)
(* run_job and _create_job_and_tasks.                                      *)
(***************************************************************************)
\* The scrape_tasks rows _create_job_and_tasks inserts, one per dealer.
create_tasks(dealers, model) ==
  [i \in 1..Len(dealers) |->
     LET built == build_inventory_url(DealerCatalog[dealers[i]], model)
     IN IF built.ok
          THEN [dealer_id |-> dealers[i], url |-> built.url, status |-> "pending",
                error |-> None]
          ELSE [dealer_id |-> dealers[i], url |-> "", status |-> "failed",
                error |-> Some(built.error)]]

\* Variant: the task that failed at URL build is handed on as well.
tasks_meta_all(dealers, model) == 1..Len(dealers)

\* The tasks_meta it returns: the tasks whose URL was built.
tasks_meta(dealers, model) ==
  {i \in 1..Len(dealers) : build_inventory_url(DealerCatalog[dealers[i]], model).ok}

\* The tasks run_job gathers.
Gathered == {t \in TaskIds : tpc[t] # "none"}

\* run_job up to its await of gather: the job row, the task rows, one
\* coroutine per entry of tasks_meta.  Coroutines left over from a run_job
\* that raised are gone with it.
StartJob(dealers, model) ==
  /\ runPc \in {"idle", "returned", "raised"}
  /\ jobNo' = jobNo + 1
  /\ runDealers' = dealers
  /\ runModel' = model
  /\ job' = Some([status |-> "running", target_count |-> Len(dealers),
                  success_count |-> 0, fail_count |-> 0, completed |-> FALSE])
  /\ tasks' = create_tasks(dealers, model)
  /\ tpc' = [t \in TaskIds |-> IF t \in tasks_meta(dealers, model) THEN "pending" ELSE "none"]
  /\ runPc' = "gather"
  /\ summary' = None
  /\ clock' = clock + 1
  /\ sem' = MAX_CONCURRENCY
  /\ attempt' = [t \in TaskIds |-> 0]
  /\ last_error' = [t \in TaskIds |-> ""]
  /\ observed_at' = [t \in TaskIds |-> 0]
  /\ fetched' = [t \in TaskIds |-> NoPage]
  /\ results' = [t \in TaskIds |-> ""]
  /\ fetch_log' = [t \in TaskIds |-> <<>>]
  /\ acquired' = [t \in TaskIds |-> 0]
  /\ steps' = [t \in TaskIds |-> {}]
  /\ fault' = [t \in TaskIds |-> ""]
  /\ UNCHANGED <<db, max_attempts, misses>>
  /\ UNCHANGED auxVars

\* status of the job from the results of the gathered tasks.
job_status(success_count, fail_count) ==
  IF fail_count = 0 THEN "success"
  ELSE IF success_count > 0 THEN "partial" ELSE "failed"

\* gather has every result: count, close the job row, return the summary.
FinalizeJob ==
  /\ runPc = "gather"
  /\ \A t \in Gathered : tpc[t] = "done"
  /\ LET success_count == Cardinality({t \in Gathered : results[t] = "success"})
         fail_count == Cardinality(Gathered) - success_count
         status == job_status(success_count, fail_count)
     IN /\ job' = Some([Val(job) EXCEPT !.status = status,
                                        !.success_count = success_count,
                                        !.fail_count = fail_count,
                                        !.completed = TRUE])
        /\ summary' = Some([status |-> status, success_count |-> success_count,
                            fail_count |-> fail_count])
  /\ runPc' = "returned"
  /\ UNCHANGED <<db, tasks, jobNo, runDealers, runModel, max_attempts, sem, clock,
                 tpc, attempt, last_error, observed_at, fetched, results, fetch_log,
                 acquired, steps, fault, misses>>
  /\ UNCHANGED auxVars

\* gather re-raises the first exception of a task to run_job, which has no
\* handler: run_job ends without _finalize_job; the other tasks go on.
GatherRaises ==
  /\ runPc = "gather"
  /\ \E t \in Gathered : tpc[t] = "raised"
  /\ runPc' = "raised"
  /\ UNCHANGED <<db, job, tasks, jobNo, runDealers, runModel, summary, max_attempts,
                 sem, clock, tpc, attempt, last_error, observed_at, fetched,
                 results, fetch_log, acquired, steps, fault, misses>>
  /\ UNCHANGED auxVars

(***************************************************************************)
(* _process_task.  An uncontended bucket, lock or semaphore does not       *)
(* suspend the coroutine, nor does _update_task_status: the coroutine runs *)
(* from one of its suspensions (the fetch, the follow-up request, the blob *)
(* write) to the next in one step.  The bucket holds RPM_LIMIT tokens and  *)
(* the semaphore MAX_CONCURRENCY slots, more than the tasks explored here  *)
(* ask for, so neither makes a task wait.                                  *)
(***************************************************************************)
\* Variant: the row is written only when an error is given.
update_task_status_on_error(ts, t, status, error) ==
  IF error # ""
    THEN [ts EXCEPT ![t] = [@ EXCEPT !.status = IF status # "" THEN status ELSE @,
                                     !.error = Some(error)]]
    ELSE ts

\* Variant: a status of success is written as failed.
update_task_status_never_success(ts, t, status, error) ==
  [ts EXCEPT ![t] = [@ EXCEPT !.status = IF status = "success" THEN "failed"
                                         ELSE IF status # "" THEN status ELSE @,
                              !.error = IF error # "" THEN Some(error) ELSE @]]

\* Variant: the error is written, the status column is left alone.
update_task_status_error_only(ts, t, status, error) ==
  [ts EXCEPT ![t] = [@ EXCEPT !.error = IF error # "" THEN Some(error) ELSE @]]

\* _update_task_status: a falsy status or error leaves the column alone.
update_task_status(ts, t, status, error) ==
  [ts EXCEPT ![t] = [@ EXCEPT !.status = IF status # "" THEN status ELSE @,
                              !.error = IF error # "" THEN Some(error) ELSE @]]

\* Variant: the task is marked success whatever went wrong.
TaskSucceedsAnyway(ts, t, error) ==
  /\ tasks' = update_task_status(ts, t, "success", "")
  /\ results' = [results EXCEPT ![t] = "success"]
  /\ tpc' = [tpc EXCEPT ![t] = "done"]

\* The task marked failed and _process_task returning {"status": "failed"}.
TaskFails(ts, t, error) ==
  /\ tasks' = update_task_status(ts, t, "failed", error)
  /\ results' = [results EXCEPT ![t] = "failed"]
  /\ tpc' = [tpc EXCEPT ![t] = "done"]

\* Mark running; a backend without a parser fails the task at once; else
\* take a token, enter the gate and call fetch.
TaskBegin(t) ==
  /\ tpc[t] = "pending"
  /\ observed_at' = [observed_at EXCEPT ![t] = clock]
  /\ LET backend == DealerCatalog[tasks[t].dealer_id].backend_type
         running == update_task_status(tasks, t, "running", "")
     IN IF backend \notin PARSER_REGISTRY
          THEN /\ TaskFails(running, t, "No parser for backend")
               /\ UNCHANGED <<acquired, sem>>
          ELSE /\ tasks' = running
               /\ sem > 0
               /\ acquired' = [acquired EXCEPT ![t] = @ + 1]
               /\ sem' = sem - 1
               /\ tpc' = [tpc EXCEPT ![t] = "fetching"]
               /\ UNCHANGED results
  /\ UNCHANGED <<db, runVars, attempt, last_error, fetched, fetch_log, steps, fault, misses>>
  /\ UNCHANGED auxVars

\* Variant: one attempt too many.
loop_continues_inclusive(attempt_value, max_attempts_value) ==
  attempt_value <= max_attempts_value

\* while attempt < self.max_attempts
loop_continues(attempt_value, max_attempts_value) == attempt_value < max_attempts_value

\* except FirecrawlRetryableError: remember the message, count the attempt
\* and loop (token, gate, fetch again); when the loop ends the task fails
\* with last_error or "unknown_error".
on_retryable_error(t, msg) ==
  /\ last_error' = [last_error EXCEPT ![t] = msg]
  /\ attempt' = [attempt EXCEPT ![t] = @ + 1]
  /\ IF loop_continues(attempt[t] + 1, max_attempts)
       THEN /\ acquired' = [acquired EXCEPT ![t] = @ + 1]
            /\ UNCHANGED <<sem, tpc, tasks, results>>
       ELSE /\ sem' = sem + 1
            /\ TaskFails(tasks, t, IF msg # "" THEN msg ELSE "unknown_error")
            /\ UNCHANGED acquired

FetchRaisesRetryable(t, msg) ==
  /\ tpc[t] = "fetching"
  /\ fetch_log' = [fetch_log EXCEPT ![t] = Append(@, [kind |-> "retryable", msg |-> msg])]
  /\ on_retryable_error(t, msg)
  /\ UNCHANGED <<db, runVars, observed_at, fetched, steps, fault, misses>>
  /\ UNCHANGED auxVars

\* Variant: a terminal error is retried like a retryable one.
on_terminal_error_retried(t, msg) == on_retryable_error(t, msg)

\* except FirecrawlError: the task fails with the message and returns.
on_terminal_error(t, msg) ==
  /\ sem' = sem + 1
  /\ TaskFails(tasks, t, msg)
  /\ UNCHANGED <<acquired, attempt, last_error>>

FetchRaisesTerminal(t, msg) ==
  /\ tpc[t] = "fetching"
  /\ fetch_log' = [fetch_log EXCEPT ![t] = Append(@, [kind |-> "terminal", msg |-> msg])]
  /\ on_terminal_error(t, msg)
  /\ UNCHANGED <<db, runVars, observed_at, fetched, steps, fault, misses>>
  /\ UNCHANGED auxVars

\* Any other exception of the fetch call has no handler in _process_task.
FetchRaisesOther(t) ==
  /\ tpc[t] = "fetching"
  /\ sem' = sem + 1
  /\ fetch_log' = [fetch_log EXCEPT ![t] = Append(@, [kind |-> "other", msg |-> "TypeError"])]
  /\ tpc' = [tpc EXCEPT ![t] = "raised"]
  /\ fault' = [fault EXCEPT ![t] = "fetch"]
  /\ UNCHANGED <<db, runVars, tasks, attempt, last_error, observed_at, fetched, results,
                 acquired, steps, misses>>
  /\ UNCHANGED auxVars

\* The rows _persist_results hands to the reconciler.
prepared_rows(t, rows) ==
  [i \in 1..Len(rows) |->
     [dealer_id |-> tasks[t].dealer_id,
      vin |-> rows[i].vin,
      advertised_price |-> rows[i].advertised_price,
      msrp |-> rows[i].msrp,
      status |-> IF rows[i].status = "" THEN "available" ELSE rows[i].status,
      observed_at |-> observed_at[t],
      first_seen_at |-> None,
      last_seen_at |-> None,
      job_id |-> jobNo,
      source |-> "inventory_list",
      source_rank |-> Some(SOURCE_RANK_INVENTORY),
      vehicle |-> [model |-> IF rows[i].model # "" THEN rows[i].model ELSE runModel,
                   msrp |-> None]]]

ObservedVins(rows) == {rows[i].vin : i \in 1..Len(rows)}

\* _persist_results after the blob write (rows) or _handle_no_inventory
\* after it (no rows): reconcile, then the absence pass, each in its own
\* transaction.  mid is the store between the two.
reconcile_result(rows, up, ab) ==
  IF up.raised
    THEN [db |-> up.db, mid |-> up.db, fault |-> "upsert", upserted |-> FALSE,
          absent_ran |-> FALSE, did |-> {"upsert"}]
    ELSE [db |-> ab.db, mid |-> up.db, fault |-> IF ab.raised THEN "absent" ELSE "",
          upserted |-> rows # <<>>, absent_ran |-> ~ab.raised,
          did |-> IF rows # <<>> THEN {"upsert", "absent"} ELSE {"absent"}]

reconcile_absent(t, rows, up, fail_absent) ==
  reconcile_result(rows, up,
                   mark_absent_listings(up.db, tasks[t].dealer_id, runModel,
                                        ObservedVins(rows), fail_absent))

reconcile(t, rows, fail_at, fail_absent) ==
  reconcile_absent(t, rows,
                   upsert_observations_and_listings(db, prepared_rows(t, rows), fail_at),
                   fail_absent)

\* Consecutive absence cycles of a listing, counted from a status that is
\* neither missing nor sold; an upsert of the listing starts the count anew.
MissCap == 3

Tracked(dbv, k, dealer_id, model) ==
  /\ k[1] = dealer_id
  /\ ~IsNone(dbv.listings[k])
  /\ ~IsNone(dbv.vehicles[k[2]])
  /\ Val(dbv.vehicles[k[2]]).model = model
  /\ LET rank == Val(dbv.listings[k]).source_rank
     IN IsNone(rank) \/ Val(rank) <= 50

MissesAfter(out, dealer_id, model, observed_vins) ==
  [k \in ListingKeys |->
     IF out.upserted /\ k[1] = dealer_id /\ k[2] \in observed_vins THEN 0
     ELSE IF out.absent_ran /\ Tracked(out.mid, k, dealer_id, model)
          THEN IF Val(out.mid.listings[k]).status \notin {"missing", "sold"} THEN 1
               ELSE IF misses[k] >= 1 THEN Min2(misses[k] + 1, MissCap)
               ELSE 0
     ELSE misses[k]]

\* The synchronous tail of _persist_results / _handle_no_inventory and the
\* final status update: success, unless the store raised on the way.
ReconciledTo(t, rows, before, out) ==
  /\ db' = out.db
  /\ steps' = [steps EXCEPT ![t] = @ \cup before \cup out.did]
  /\ misses' = MissesAfter(out, tasks[t].dealer_id, runModel, ObservedVins(rows))
  /\ fetched' = [fetched EXCEPT ![t] = NoPage]
  /\ IF out.fault # ""
       THEN /\ tpc' = [tpc EXCEPT ![t] = "raised"]
            /\ fault' = [fault EXCEPT ![t] = out.fault]
            /\ UNCHANGED <<tasks, results>>
       ELSE /\ tasks' = update_task_status(tasks, t, "success", "")
            /\ results' = [results EXCEPT ![t] = "success"]
            /\ tpc' = [tpc EXCEPT ![t] = "done"]
            /\ UNCHANGED fault

Reconciled(t, rows, fail_at, fail_absent, before) ==
  ReconciledTo(t, rows, before, reconcile(t, rows, fail_at, fail_absent))

FailAts(rows) == IF rows = <<>> THEN {0} ELSE 0..(Len(rows) + 1)

LogOk(page) ==
  [kind |-> "ok",
   msg |-> IF page.parse = "error" THEN "parse_error"
           ELSE IF page.rows # <<>> THEN "rows" ELSE "empty"]

\* rows are in hand (or known to be none): store the raw content when there
\* is any, which suspends, else go on to reconcile at once.
Proceed(t, page, fail_at, fail_absent, before) ==
  IF page.content
    THEN /\ tpc' = [tpc EXCEPT ![t] = "blob"]
         /\ fetched' = [fetched EXCEPT ![t] = page]
         /\ steps' = [steps EXCEPT ![t] = @ \cup before]
         /\ fail_at = 0 /\ ~fail_absent
         /\ UNCHANGED <<db, tasks, results, fault, misses>>
    ELSE /\ fail_at \in FailAts(page.rows)
         /\ Reconciled(t, page.rows, fail_at, fail_absent, before)

\* The fetch returned a result and the dealer's parser ran on it.
FetchReturns(t, page, fail_at, fail_absent) ==
  /\ tpc[t] = "fetching"
  /\ sem' = sem + 1
  /\ fetch_log' = [fetch_log EXCEPT ![t] = Append(@, LogOk(page))]
  /\ LET backend == DealerCatalog[tasks[t].dealer_id].backend_type
     IN IF page.parse = "error"
          THEN /\ last_error' = [last_error EXCEPT ![t] = ParseErrorMessage]
               /\ TaskFails(tasks, t, ParseErrorMessage)
               /\ steps' = [steps EXCEPT ![t] = @ \cup {"parse"}]
               /\ fail_at = 0 /\ ~fail_absent
               /\ UNCHANGED <<db, acquired, fetched, fault, misses>>
          ELSE IF page.rows = <<>> /\ backend \in API_FOLLOW_UP_BACKENDS
                  /\ page.content /\ page.api
          THEN /\ acquired' = [acquired EXCEPT ![t] = @ + 1]
               /\ tpc' = [tpc EXCEPT ![t] = "api"]
               /\ fetched' = [fetched EXCEPT ![t] = page]
               /\ steps' = [steps EXCEPT ![t] = @ \cup {"parse"}]
               /\ fail_at = 0 /\ ~fail_absent
               /\ UNCHANGED <<db, tasks, results, last_error, fault, misses>>
          ELSE /\ Proceed(t, page, fail_at, fail_absent, {"parse"})
               /\ UNCHANGED <<acquired, last_error>>
  /\ UNCHANGED <<runVars, attempt, observed_at>>
  /\ UNCHANGED auxVars

\* The inventory API answered: its rows replace the empty parse.
ApiReturns(t, rows) ==
  /\ tpc[t] = "api"
  /\ Proceed(t, [fetched[t] EXCEPT !.rows = rows], 0, FALSE, {"api"})
  /\ UNCHANGED <<runVars, sem, attempt, last_error, observed_at, fetch_log, acquired>>
  /\ UNCHANGED auxVars

\* The follow-up raised: last_error, break, the task fails.
ApiRaises(t) ==
  /\ tpc[t] = "api"
  /\ last_error' = [last_error EXCEPT ![t] = "api error"]
  /\ TaskFails(tasks, t, "api error")
  /\ steps' = [steps EXCEPT ![t] = @ \cup {"api"}]
  /\ fetched' = [fetched EXCEPT ![t] = NoPage]
  /\ UNCHANGED <<db, runVars, sem, attempt, observed_at, fetch_log, acquired, fault, misses>>
  /\ UNCHANGED auxVars

\* The blob store wrote the raw content.
BlobReturns(t, fail_at, fail_absent) ==
  /\ tpc[t] = "blob"
  /\ fail_at \in FailAts(fetched[t].rows)
  /\ Reconciled(t, fetched[t].rows, fail_at, fail_absent, {"blob"})
  /\ UNCHANGED <<runVars, sem, attempt, last_error, observed_at, fetch_log, acquired>>
  /\ UNCHANGED auxVars

\* The blob store raised: no handler in _process_task.
BlobRaises(t) ==
  /\ tpc[t] = "blob"
  /\ tpc' = [tpc EXCEPT ![t] = "raised"]
  /\ fault' = [fault EXCEPT ![t] = "blob"]
  /\ steps' = [steps EXCEPT ![t] = @ \cup {"blob"}]
  /\ fetched' = [fetched EXCEPT ![t] = NoPage]
  /\ UNCHANGED <<db, runVars, tasks, sem, attempt, last_error, observed_at, results,
                 fetch_log, acquired, misses>>
  /\ UNCHANGED auxVars

TaskStep ==
  \/ FinalizeJob
  \/ GatherRaises
  \/ \E t \in TaskIds : TaskBegin(t)
  \/ \E t \in TaskIds, msg \in RetryableMessages : FetchRaisesRetryable(t, msg)
  \/ \E t \in TaskIds, msg \in TerminalMessages : FetchRaisesTerminal(t, msg)
  \/ \E t \in TaskIds : FetchRaisesOther(t)
  \/ \E t \in TaskIds, page \in Pages, fail_at \in 0..1, fail_absent \in BOOLEAN :
       FetchReturns(t, page, fail_at, fail_absent)
  \/ \E t \in TaskIds, rows \in ApiRows : ApiReturns(t, rows)
  \/ \E t \in TaskIds : ApiRaises(t)
  \/ \E t \in TaskIds, fail_at \in 0..3, fail_absent \in BOOLEAN :
       BlobReturns(t, fail_at, fail_absent)
  \/ \E t \in TaskIds : BlobRaises(t)

\* Jobs over any dealers and model.
Next ==
  \/ \E dealers \in DealerLists, model \in ModelArgs :
       jobNo < MaxJobs /\ StartJob(dealers, model)
  \/ TaskStep

Spec == Init /\ [][Next]_vars

\* Scrape cycles: run_job called again and again for one dealer and model.
NextCycles ==
  \/ jobNo < MaxCycles /\ StartJob(<<1>>, "4Runner")
  \/ TaskStep

SpecCycles == Init /\ [][NextCycles]_vars

\* Jobs whose dealers include one with a backend_type that has no parser.
BackendLists == {l \in UNION {[1..n -> CatalogIds] : n \in 1..MaxDealers} :
                   /\ \A i, j \in 1..Len(l) : i < j => l[i] < l[j]
                   /\ \E i \in 1..Len(l) : l[i] \notin DealerIds}

NextBackend ==
  \/ \E dealers \in BackendLists, model \in ModelArgs :
       jobNo < MaxBackendJobs /\ StartJob(dealers, model)
  \/ TaskStep

SpecBackend == Init /\ [][NextBackend]_vars
(***************************************************************************)
(* Cancellation.  Cancelling the task that runs run_job while it awaits    *)
(* gather cancels every gathered coroutine that has not finished:          *)
(* CancelledError is raised at the await where it is suspended (or before  *)
(* its first step).  It is a BaseException: no except clause of            *)
(* _process_task or run_job matches it; the semaphore's context manager    *)
(* releases the slot on the way out.                                       *)
(***************************************************************************)
CancelJob ==
  /\ runPc = "gather"
  /\ \E t \in Gathered : tpc[t] \notin {"done", "raised"}
  /\ runPc' = "cancelled"
  /\ tpc' = [t \in TaskIds |->
               IF t \in Gathered /\ tpc[t] \notin {"done", "raised"}
                 THEN "cancelled" ELSE tpc[t]]
  /\ sem' = MAX_CONCURRENCY
  /\ fetched' = [t \in TaskIds |-> NoPage]
  /\ UNCHANGED <<db, job, tasks, jobNo, runDealers, runModel, summary, max_attempts,
                 clock, attempt, last_error, observed_at, results, fetch_log,
                 acquired, steps, fault, misses>>
  /\ UNCHANGED auxVars

NextCancel ==
  \/ \E dealers \in DealerLists, model \in ModelArgs :
       jobNo < MaxCancelJobs /\ StartJob(dealers, model)
  \/ TaskStep
  \/ CancelJob

SpecCancel == Init /\ [][NextCancel]_vars

(***************************************************************************)
(* The concurrency gate under load.  One job over GateTasks SmartPath      *)
(* dealers; the tasks are interchangeable, so the state is the number of   *)
(* tasks in each phase of _process_task: waiting to enter                  *)
(* "async with self.sem", inside it awaiting firecrawl.fetch, awaiting the *)
(* fetch of a SmartPath fallback URL, or done.  The bucket starts with     *)
(* RPM_LIMIT tokens, more than the tasks ask for.                          *)
(***************************************************************************)
gateFrame == <<db, job, tasks, jobNo, runPc, runDealers, runModel, summary,
               max_attempts, clock, tpc, attempt, last_error, observed_at, fetched,
               results, fetch_log, acquired, steps, fault, misses, bucket, replay, io, chain, post, meter, urlCall>>

\* run_job gathers the tasks.
GateOpen ==
  /\ gate = GateIdle
  /\ gate' = [GateIdle EXCEPT !.waiting = GateTasks]
  /\ UNCHANGED <<sem, gateFrame>>

\* async with self.sem: a slot is taken and fetch is called.
GateEnter ==
  /\ gate.waiting > 0
  /\ sem > 0
  /\ sem' = sem - 1
  /\ gate' = [gate EXCEPT !.waiting = @ - 1, !.fetching = @ + 1]
  /\ UNCHANGED gateFrame

\* The fetch raised a retryable error: the slot is released, the loop goes
\* round.
GateRetry ==
  /\ gate.fetching > 0
  /\ sem' = sem + 1
  /\ gate' = [gate EXCEPT !.fetching = @ - 1, !.waiting = @ + 1]
  /\ UNCHANGED gateFrame

\* The fetch returned or raised for good: the slot is released and the task
\* goes on without fetching again.
GateLeave ==
  /\ gate.fetching > 0
  /\ sem' = sem + 1
  /\ gate' = [gate EXCEPT !.fetching = @ - 1, !.done = @ + 1]
  /\ UNCHANGED gateFrame

\* The fetch returned, the slot is released, parse_smartpath raised
\* SmartPathParseError: the first fallback URL is fetched.
GateFallback ==
  /\ gate.fetching > 0
  /\ sem' = sem + 1
  /\ gate' = [gate EXCEPT !.fetching = @ - 1, !.fallback = @ + 1]
  /\ UNCHANGED gateFrame

\* The last fallback fetch of a task returned or raised.
GateFallbackEnds ==
  /\ gate.fallback > 0
  /\ gate' = [gate EXCEPT !.fallback = @ - 1, !.done = @ + 1]
  /\ UNCHANGED <<sem, gateFrame>>

NextGate ==
  \/ GateOpen
  \/ GateEnter
  \/ GateRetry
  \/ GateLeave
  \/ GateFallback
  \/ GateFallbackEnds

SpecGate == Init /\ [][NextGate]_vars

(***************************************************************************)
(* TokenBucket.acquire under contention.  asyncio.Lock queues its waiters  *)
(* and release wakes the first of them; a caller that finds the lock free  *)
(* and nobody queued takes it without suspending.  The holder keeps the    *)
(* lock across its sleeps.  pc of a caller: "idle" (not in acquire),       *)
(* "queued" (waiting for the lock), "woken" (given the lock, not yet run), *)
(* "sleep" (holding the lock in asyncio.sleep).                            *)
(***************************************************************************)
bucketFrame == <<db, jobVars, gate, replay, io, chain, post, meter, urlCall>>

\* One pass from "while self.tokens < n" to the next suspension or to the
\* end of acquire: refill when short; sleep when still short, else take n.
refill(b, n) ==
  IF b.tokens < n
    THEN [b EXCEPT !.tokens = Min2(BucketCapacity, b.tokens + b.elapsed), !.elapsed = 0]
    ELSE b

\* Variant: release wakes the waiter that queued last.
lock_release_lifo(b) ==
  IF b.waiters = <<>>
    THEN [b EXCEPT !.holder = 0]
    ELSE [b EXCEPT !.holder = b.waiters[Len(b.waiters)],
                   !.pc[b.waiters[Len(b.waiters)]] = "woken",
                   !.waiters = SubSeq(b.waiters, 1, Len(b.waiters) - 1)]

\* Leaving "async with self.lock": the first waiter is woken and has the lock.
lock_release(b) ==
  IF b.waiters = <<>>
    THEN [b EXCEPT !.holder = 0]
    ELSE [b EXCEPT !.holder = Head(b.waiters),
                   !.pc[Head(b.waiters)] = "woken",
                   !.waiters = Tail(b.waiters)]

\* Variant: the tokens are deducted whether or not the bucket holds them.
take_unchecked(b, c, n) ==
  lock_release([b EXCEPT !.tokens = @ - n, !.pc[c] = "idle", !.n[c] = 0])

take_or_sleep(b, c, n) ==
  IF b.tokens < n
    THEN [b EXCEPT !.pc[c] = "sleep"]
    ELSE lock_release([b EXCEPT !.tokens = @ - n, !.pc[c] = "idle", !.n[c] = 0])

acquire_loop(b, c, n) == take_or_sleep(refill(b, n), c, n)

\* acquire(n) is called: take the free lock and run the loop, or queue.
BucketCall(c, n) ==
  /\ bucket.pc[c] = "idle"
  /\ bucket' = IF bucket.holder = 0 /\ bucket.waiters = <<>>
                 THEN acquire_loop([bucket EXCEPT !.holder = c, !.n[c] = n], c, n)
                 ELSE [bucket EXCEPT !.pc[c] = "queued", !.n[c] = n,
                                     !.waiters = Append(@, c)]
  /\ UNCHANGED bucketFrame

\* A woken waiter runs: it has the lock and enters the loop.
BucketResume(c) ==
  /\ bucket.pc[c] = "woken"
  /\ bucket' = acquire_loop(bucket, c, bucket.n[c])
  /\ UNCHANGED bucketFrame

\* asyncio.sleep(0.05) returns: the loop goes round.
BucketWake(c) ==
  /\ bucket.pc[c] = "sleep"
  /\ bucket' = acquire_loop(bucket, c, bucket.n[c])
  /\ UNCHANGED bucketFrame

\* time.monotonic() advances.
BucketTick ==
  /\ bucket.elapsed < BucketCapacity
  /\ bucket' = [bucket EXCEPT !.elapsed = @ + 1]
  /\ UNCHANGED bucketFrame

NextBucket ==
  \/ \E c \in Callers, n \in 1..BucketCapacity : BucketCall(c, n)
  \/ \E c \in Callers : BucketResume(c)
  \/ \E c \in Callers : BucketWake(c)
  \/ BucketTick

\* The event loop runs every coroutine that is ready, and time advances.
SpecBucket ==
  /\ Init
  /\ [][NextBucket]_vars
  /\ WF_vars(BucketTick)
  /\ \A c \in Callers : WF_vars(BucketResume(c)) /\ WF_vars(BucketWake(c))

(***************************************************************************)
(* The bucket with a meter on it.  An observer opens an interval at any    *)
(* moment; meter.T is the time since then, in ticks (the time in which the *)
(* bucket gains one token, so that rate = 1), and meter.granted the tokens *)
(* that calls of acquire took since then.  The interval is closed when it  *)
(* has lasted MaxWindow ticks.  The bucket steps are those of SpecBucket.  *)
(***************************************************************************)
meterFrame == <<db, jobVars, gate, replay, io, chain, post, urlCall>>

\* The tokens caller c took when a pass of the loop left the bucket as r.
granted_by(r, c, n) == IF r.pc[c] = "idle" THEN n ELSE 0

metered(m, k) == IF m.open THEN [m EXCEPT !.granted = @ + k] ELSE m

\* acquire(n) is called: take the free lock and run the loop, or queue.
MeterCall(c, n) ==
  /\ bucket.pc[c] = "idle"
  /\ bucket' = IF bucket.holder = 0 /\ bucket.waiters = <<>>
                 THEN acquire_loop([bucket EXCEPT !.holder = c, !.n[c] = n], c, n)
                 ELSE [bucket EXCEPT !.pc[c] = "queued", !.n[c] = n,
                                     !.waiters = Append(@, c)]
  /\ meter' = metered(meter, granted_by(bucket', c, n))
  /\ UNCHANGED meterFrame

\* A woken waiter runs, or asyncio.sleep(0.05) returns: a pass of the loop.
MeterPass(c) ==
  /\ bucket.pc[c] \in {"woken", "sleep"}
  /\ bucket' = acquire_loop(bucket, c, bucket.n[c])
  /\ meter' = metered(meter, granted_by(bucket', c, bucket.n[c]))
  /\ UNCHANGED meterFrame

\* time.monotonic() advances by one tick; an interval of MaxWindow ticks ends.
MeterTick ==
  /\ bucket.elapsed < BucketCapacity \/ meter.open
  /\ bucket' = [bucket EXCEPT !.elapsed = Min2(BucketCapacity, @ + 1)]
  /\ meter' = IF ~meter.open THEN meter
              ELSE IF meter.T = MaxWindow THEN MeterIdle
              ELSE [meter EXCEPT !.T = @ + 1]
  /\ UNCHANGED meterFrame

\* The observer starts to count.
MeterOpen ==
  /\ ~meter.open
  /\ meter' = [open |-> TRUE, T |-> 0, granted |-> 0]
  /\ UNCHANGED <<bucket, meterFrame>>

NextMeter ==
  \/ \E c \in Callers, n \in 1..BucketCapacity : MeterCall(c, n)
  \/ \E c \in Callers : MeterPass(c)
  \/ MeterTick
  \/ MeterOpen

SpecMeter == Init /\ [][NextMeter]_vars

(***************************************************************************)
(* The reconciler called on its own, as an upload or a test calls it: a    *)
(* sequence of upsert_observations_and_listings calls on row batches, a    *)
(* batch applied a second time, and absence passes in between.             *)
(***************************************************************************)
ingestFrame == <<jobVars, gate, bucket, io, chain, post, meter, urlCall>>

\* A row as the reconciler reads it (row["dealer_id"], row["vin"],
\* row.get("observed_at"), ...), for dealer 1.
IngestRow(vin, price, msrp, at, first, last, rank) ==
  [dealer_id |-> 1, vin |-> vin, advertised_price |-> price, msrp |-> msrp,
   status |-> "", observed_at |-> at, first_seen_at |-> first,
   last_seen_at |-> last, job_id |-> 0, source |-> "upload",
   source_rank |-> rank, vehicle |-> [model |-> "4Runner", msrp |-> None]]

\* Rows that differ in what they say about the price: a price, or none with
\* or without an MSRP.
RowPrices == { <<Some(1), None>>, <<Some(2), None>>, <<None, Some(3)>>, <<None, None>> }

PriceRows ==
  { IngestRow(v, pm[1], pm[2], t, None, None, None) :
      v \in VINs, pm \in RowPrices, t \in 1..MaxTime }

\* Rows that differ in the seen window and the source rank they carry.
SeenRows ==
  { IngestRow(v, Some(1), None, t, f, l, r) :
      v \in VINs, t \in 1..MaxTime, f \in {None, Some(MaxTime)},
      l \in {None, Some(1)}, r \in {None, Some(0), Some(DEFAULT_SOURCE_RANK)} }

Batches(R, n) == UNION { [1..k -> R] : k \in 1..n }

\* upsert_observations_and_listings(rows, source)
Reconcile(rows) ==
  /\ db' = upsert_observations_and_listings(db, rows, 0).db
  /\ replay' = [rows |-> rows,
                committed |-> ~upsert_observations_and_listings(db, rows, 0).raised,
                calls |-> replay.calls + 1, op |-> "reconcile"]
  /\ UNCHANGED ingestFrame

\* The same call again, with the batch of the call before unchanged.
Replay ==
  /\ replay.op = "reconcile"
  /\ replay.committed
  /\ db' = upsert_observations_and_listings(db, replay.rows, 0).db
  /\ replay' = [replay EXCEPT
                  !.committed = ~upsert_observations_and_listings(db, replay.rows, 0).raised,
                  !.op = "replay"]
  /\ UNCHANGED ingestFrame

\* _mark_absent_listings for dealer 1 and the model of the rows.
AbsenceCycle(observed_vins) ==
  /\ db' = mark_absent_listings(db, 1, "4Runner", observed_vins, FALSE).db
  /\ replay' = [rows |-> <<>>, committed |-> TRUE,
                calls |-> replay.calls + 1, op |-> "absence"]
  /\ UNCHANGED ingestFrame

NextPrices ==
  \/ replay.calls < MaxReconciles
       /\ \E rows \in Batches(PriceRows, MaxBatch) : Reconcile(rows)
  \/ Replay

SpecPrices == Init /\ [][NextPrices]_vars

NextSeen ==
  \/ replay.calls < MaxSeenCalls
       /\ \E rows \in Batches(SeenRows, 1) : Reconcile(rows)
  \/ replay.calls < MaxSeenCalls
       /\ \E observed_vins \in SUBSET VINs : AbsenceCycle(observed_vins)

SpecSeen == Init /\ [][NextSeen]_vars

\* Rows with or without a price, in batches, replayed, with absence passes.
AuditRows == { IngestRow(v, p, None, 1, None, None, None) : v \in VINs, p \in {None, Some(1)} }

NextAudit ==
  \/ replay.calls < MaxAuditCalls
       /\ \E rows \in Batches(AuditRows, MaxBatch) : Reconcile(rows)
  \/ Replay
  \/ replay.calls < MaxAuditCalls
       /\ \E observed_vins \in SUBSET VINs : AbsenceCycle(observed_vins)

SpecAudit == Init /\ [][NextAudit]_vars

\* Rows that differ in the price, the MSRP and the MSRP of the vehicle data
\* they carry, one row to a batch.
DeltaRows ==
  { [IngestRow(v, p, m, 1, None, None, None) EXCEPT !.vehicle.msrp = vm] :
      v \in VINs, p \in {None, Some(1), Some(2)}, m \in {None, Some(3)},
      vm \in {None, Some(4)} }

NextDelta ==
  replay.calls < MaxDeltaCalls /\ \E rows \in Batches(DeltaRows, 1) : Reconcile(rows)

SpecDelta == Init /\ [][NextDelta]_vars

\* Rows of either dealer and model, from a scrape (rank 50), an upload
\* (rank 80) or with no rank, one row to a batch, and absence passes for
\* any dealer, model and observed set.
ScopeRows ==
  { [IngestRow(v, Some(1), None, 1, None, None, r)
       EXCEPT !.dealer_id = d, !.vehicle.model = m] :
      d \in DealerIds, v \in VINs, m \in {"4Runner", "Tacoma"},
      r \in {None, Some(SOURCE_RANK_INVENTORY), Some(SOURCE_RANK_UPLOAD)} }

\* _mark_absent_listings(dealer_id, model, observed_vins, observed_at)
AbsencePass(dealer_id, model, observed_vins) ==
  /\ db' = mark_absent_listings(db, dealer_id, model, observed_vins, FALSE).db
  /\ replay' = [rows |-> <<>>, committed |-> TRUE, calls |-> replay.calls + 1,
                op |-> "absence", dealer_id |-> dealer_id, model |-> model,
                observed_vins |-> observed_vins]
  /\ UNCHANGED ingestFrame

NextScope ==
  \/ replay.calls < MaxScopeCalls
       /\ \E rows \in Batches(ScopeRows, 1) : Reconcile(rows)
  \/ replay.calls < MaxScopeCalls
       /\ \E d \in DealerIds, m \in {"4Runner", "Tacoma"}, observed_vins \in SUBSET VINs :
            AbsencePass(d, m, observed_vins)

SpecScope == Init /\ [][NextScope]_vars

\* Two observations of one listing, each applied by a call of its own, in
\* the order a, b; replay keeps the listing as it was before and as the
\* order b, a would have left it.
OrderRows ==
  { IngestRow(v, Some(1), None, t, f, l, None) :
      v \in VINs, t \in 1..MaxTime, f \in {None, Some(MaxTime)}, l \in {None, Some(1)} }

\* The store after the calls for <<a>> and then for <<b>>.
applied_in_order(dbv, a, b) ==
  upsert_observations_and_listings(
    upsert_observations_and_listings(dbv, <<a>>, 0).db, <<b>>, 0).db

ReconcilePair(a, b) ==
  /\ db' = applied_in_order(db, a, b)
  /\ replay' = [rows |-> <<a, b>>, committed |-> TRUE, calls |-> replay.calls + 1,
                op |-> "pair", before |-> db.listings[<<a.dealer_id, a.vin>>],
                swapped |-> applied_in_order(db, b, a).listings[<<a.dealer_id, a.vin>>]]
  /\ UNCHANGED ingestFrame

NextOrder ==
  /\ replay.calls < MaxOrderCalls
  /\ \E a \in OrderRows : \E b \in {r \in OrderRows : r.vin = a.vin} : ReconcilePair(a, b)

SpecOrder == Init /\ [][NextOrder]_vars

\* Scrapes of dealer 1 and one model, one after the other: what the parser
\* made of the page is a single row or none, with the status the page gives
\* (none, or any text in lower case).
ScrapeStatuses == {"", "in_transit", "sold", "missing"}

ScrapedPages ==
  {<<>>} \cup { <<ParsedRow(v, Some(1), st)>> : v \in VINs, st \in ScrapeStatuses }

\* The rows _persist_results hands to the reconciler, observed at time at.
scraped_rows(rows, at) ==
  [i \in 1..Len(rows) |->
     [IngestRow(rows[i].vin, rows[i].advertised_price, rows[i].msrp, at, None, None,
                Some(SOURCE_RANK_INVENTORY))
        EXCEPT !.status = IF rows[i].status = "" THEN "available" ELSE rows[i].status,
               !.source = "inventory_list"]]

\* The reconciler, then the absence pass over the VINs of the rows.
persisted_after(rows, up) ==
  reconcile_result(rows, up,
                   mark_absent_listings(up.db, 1, "4Runner", ObservedVins(rows), FALSE))

persisted(dbv, rows, at) ==
  persisted_after(rows, upsert_observations_and_listings(dbv, scraped_rows(rows, at), 0))

\* History of the scrapes: revived holds the listings whose latest scrape
\* observed them while they were missing, lapsed those of them that this
\* scrape did not observe.
StatusIn(dbv, k) == IF IsNone(dbv.listings[k]) THEN "" ELSE Val(dbv.listings[k]).status

ObservedKeys(rows) == {<<1, v>> : v \in ObservedVins(rows)}

RevivedBefore == IF replay.op = "scrape" THEN replay.revived ELSE {}

RevivedAfter(rows) ==
  {k \in ObservedKeys(rows) : StatusIn(db, k) = "missing"}
    \cup {k \in RevivedBefore : k[1] # 1}

\* _persist_results (rows) or _handle_no_inventory (no rows) of a task of
\* dealer 1.
PersistResults(rows) ==
  /\ db' = persisted(db, rows, replay.calls + 1).db
  /\ replay' = [rows |-> scraped_rows(rows, replay.calls + 1),
                committed |-> persisted(db, rows, replay.calls + 1).fault = "",
                calls |-> replay.calls + 1, op |-> "scrape",
                revived |-> RevivedAfter(rows),
                lapsed |-> RevivedBefore \ ObservedKeys(rows)]
  /\ UNCHANGED ingestFrame

NextMiss ==
  /\ replay.calls < MaxMissCalls
  /\ \E rows \in ScrapedPages : PersistResults(rows)

SpecMiss == Init /\ [][NextMiss]_vars

\* build_inventory_url(dealer_row, model) for a dealer whose template has the
\* parameters params and whose row has the given city_code and dealer_code.
BaseTokens(city_code, dealer_code) ==
  [key \in Placeholders |-> IF key = "{city_code}" THEN city_code ELSE dealer_code]

BuildUrl(params, city_code, dealer_code) ==
  /\ urlCall' = [params |-> params, city_code |-> city_code, dealer_code |-> dealer_code,
                 raised |-> inventory_url_text(TemplateOf(params),
                                               BaseTokens(city_code, dealer_code)).raised,
                 url |-> inventory_url_text(TemplateOf(params),
                                            BaseTokens(city_code, dealer_code)).url]
  /\ UNCHANGED <<db, jobVars, gate, bucket, replay, io, chain, post, meter>>

NextUrl ==
  \E params \in UNION { [1..n -> UrlParams] : n \in 0..MaxParams },
     city_code \in {None, Some(<<>>), Some(<<"7">>)},
     dealer_code \in {None, Some(<<"9">>)} :
    BuildUrl(params, city_code, dealer_code)

SpecUrl == Init /\ [][NextUrl]_vars

(***************************************************************************)
(* The calls one _process_task makes to the token bucket, the concurrency  *)
(* gate, the fetch client and the inventory APIs, in the order it makes    *)
(* them.  io.log is the sequence of: "token" (bucket.acquire(1) returned), *)
(* "slot" (self.sem entered), "fetch" (firecrawl.fetch called for the      *)
(* task's URL), "release" (self.sem left), "fallback_fetch"                *)
(* (firecrawl.fetch called for a SmartPath fallback URL) and "api" (the    *)
(* POST of an inventory API follow-up).  The bucket holds RPM_LIMIT tokens *)
(* and the gate MAX_CONCURRENCY slots, so one task waits for neither.      *)
(***************************************************************************)
ioFrame == <<db, jobVars, gate, bucket, replay, chain, post, meter, urlCall>>

IoBackends == {"SMARTPATH", "CDK", "DEALER_SOCKET"}

\* _smartpath_fallback_urls: four candidates, none without a homepage_url.
smartpath_fallback_urls(has_homepage) == IF has_homepage THEN SmartPathCandidates ELSE 0

\* _process_task up to the loop, for a backend that has a parser.
IoBegin(backend, has_homepage) ==
  /\ io.pc = "idle"
  /\ io' = [pc |-> "loop", backend |-> backend, attempt |-> 0,
            urls |-> smartpath_fallback_urls(has_homepage), log |-> <<>>]
  /\ UNCHANGED ioFrame

\* while attempt < self.max_attempts: await self.bucket.acquire(1)
IoAcquire ==
  /\ io.pc = "loop"
  /\ io.attempt < max_attempts
  /\ io' = [io EXCEPT !.pc = "gate", !.log = Append(@, "token")]
  /\ UNCHANGED ioFrame

\* async with self.sem: result = await self.firecrawl.fetch(url, ...)
IoEnter ==
  /\ io.pc = "gate"
  /\ io' = [io EXCEPT !.pc = "fetching", !.log = @ \o <<"slot", "fetch">>]
  /\ UNCHANGED ioFrame

\* except FirecrawlRetryableError: attempt += 1; continue
IoFetchRetryable ==
  /\ io.pc = "fetching"
  /\ io' = [io EXCEPT !.pc = IF io.attempt + 1 < max_attempts THEN "loop" ELSE "end",
                      !.attempt = @ + 1,
                      !.log = Append(@, "release")]
  /\ UNCHANGED ioFrame

\* except FirecrawlError: the task fails.
IoFetchTerminal ==
  /\ io.pc = "fetching"
  /\ io' = [io EXCEPT !.pc = "end", !.log = Append(@, "release")]
  /\ UNCHANGED ioFrame

\* fetch returned and the parser ran: rows, no rows, SmartPathParseError
\* (parse_smartpath only) or another exception.
IoParsed(outcome) ==
  /\ io.pc = "fetching"
  /\ outcome = "smartpath_error" => io.backend = "SMARTPATH"
  /\ io' = [io EXCEPT
              !.pc = IF outcome = "smartpath_error" /\ io.urls > 0 THEN "fallback"
                     ELSE IF outcome = "empty" /\ io.backend \in API_FOLLOW_UP_BACKENDS
                       THEN "api"
                     ELSE "end",
              !.log = Append(@, "release")]
  /\ UNCHANGED ioFrame

\* for fallback_url in fallback_urls: await self.firecrawl.fetch(fallback_url, ...)
IoFallbackFetch ==
  /\ io.pc = "fallback"
  /\ io' = [io EXCEPT !.pc = "fallback_fetching", !.urls = @ - 1,
                      !.log = Append(@, "fallback_fetch")]
  /\ UNCHANGED ioFrame

\* The fallback fetch raised FirecrawlError or gave no rows (the next URL is
\* tried), or a fallback parser found rows.
IoFallbackReturns(found) ==
  /\ io.pc = "fallback_fetching"
  /\ io' = [io EXCEPT !.pc = IF ~found /\ io.urls > 0 THEN "fallback" ELSE "end"]
  /\ UNCHANGED ioFrame

\* _fetch_cdk_inventory with nothing to request, or its
\* await self.bucket.acquire(1)
IoApiAcquire(has_request) ==
  /\ io.pc = "api"
  /\ io' = [io EXCEPT !.pc = IF has_request THEN "api_post" ELSE "end",
                      !.log = IF has_request THEN Append(@, "token") ELSE @]
  /\ UNCHANGED ioFrame

\* response = await client.post(endpoint, ...)
IoApiPost ==
  /\ io.pc = "api_post"
  /\ io' = [io EXCEPT !.pc = "end", !.log = Append(@, "api")]
  /\ UNCHANGED ioFrame

NextIo ==
  \/ \E backend \in IoBackends, has_homepage \in BOOLEAN : IoBegin(backend, has_homepage)
  \/ IoAcquire
  \/ IoEnter
  \/ IoFetchRetryable
  \/ IoFetchTerminal
  \/ \E outcome \in {"rows", "empty", "smartpath_error", "error"} : IoParsed(outcome)
  \/ IoFallbackFetch
  \/ \E found \in BOOLEAN : IoFallbackReturns(found)
  \/ \E has_request \in BOOLEAN : IoApiAcquire(has_request)
  \/ IoApiPost

SpecIo == Init /\ [][NextIo]_vars

(***************************************************************************)
(* One _process_task from the page its fetch returned: the dealer's parser,*)
(* the fallback parsers on DealerOnParseError, the fallback URLs and their *)
(* parser chain on SmartPathParseError, then _persist_results or           *)
(* _handle_no_inventory and the final status.  The parsers are synchronous:*)
(* the coroutine is suspended only in a fetch and in the persisting tail.  *)
(* The fetch of the task's own URL returns a page here; its errors are the *)
(* subject of the retry loop above.                                        *)
(***************************************************************************)
chainFrame == <<db, jobVars, gate, bucket, replay, io, post, meter, urlCall>>

ChainBackends == {"DEALERON", "SMARTPATH", "TEAM_VELOCITY"}

Markers == {"smartpath", "teamvelocityportal", "inventoryapibaseurl"}

SMARTPATH_FALLBACK_PARSERS ==
  <<"TEAM_VELOCITY", "DEALER_INSPIRE", "DEALER_COM", "DEALERON", "DEALER_SOCKET", "CDK">>

FallbackNames == {SMARTPATH_FALLBACK_PARSERS[i] : i \in DOMAIN SMARTPATH_FALLBACK_PARSERS}

\* The pages a task's own URL may return.
PrimaryPages ==
  { [markers |-> m, raises |-> r, rows |-> w] :
      m \in SUBSET Markers, r \in SUBSET ChainBackends, w \in SUBSET ChainBackends }
  \ { pg \in [markers : SUBSET Markers, raises : SUBSET ChainBackends,
               rows : SUBSET ChainBackends] : pg.raises \cap pg.rows # {} }

\* The pages a fallback URL may return: at most two parsers find rows.
FallbackPages ==
  { pg \in [markers : {{}}, raises : {{}, {"TEAM_VELOCITY"}, {"DEALERON"}},
            rows : {w \in SUBSET FallbackNames : Cardinality(w) <= 2}] :
      pg.raises \cap pg.rows = {} }

\* parser(content): its parse error, rows, or no rows.
parse(parser, page) ==
  IF parser \in page.raises THEN "raise"
  ELSE IF parser \in page.rows THEN "rows" ELSE "empty"

ParseErrorOf(parser) ==
  IF parser = "DEALERON" THEN "DealerOnParseError"
  ELSE IF parser = "SMARTPATH" THEN "SmartPathParseError"
  ELSE "TeamVelocityParseError"

\* The state of the DealerOnParseError handler: handled, rows, last_exc.
NotHandled == [tried |-> <<>>, handled |-> FALSE, has_rows |-> FALSE, last_exc |-> ""]

try_parser(st, parser, page) ==
  IF parse(parser, page) = "raise"
    THEN [st EXCEPT !.tried = Append(@, parser), !.last_exc = ParseErrorOf(parser)]
    ELSE [st EXCEPT !.tried = Append(@, parser), !.handled = TRUE,
                    !.has_rows = parse(parser, page) = "rows"]

\* if "smartpath" in content_lower: try parse_smartpath
after_smartpath(st, page) ==
  IF "smartpath" \in page.markers THEN try_parser(st, "SMARTPATH", page) ELSE st

\* if not handled and ("teamvelocityportal" in content_lower or
\* "inventoryapibaseurl" in content_lower): try parse_team_velocity
after_team_velocity(st, page) ==
  IF ~st.handled /\ ({"teamvelocityportal", "inventoryapibaseurl"} \cap page.markers # {})
    THEN try_parser(st, "TEAM_VELOCITY", page)
    ELSE st

\* Variant: the Team Velocity parser is tried before the SmartPath parser.
dealer_on_fallback_tv_first(page) ==
  LET tv == IF {"teamvelocityportal", "inventoryapibaseurl"} \cap page.markers # {}
              THEN try_parser(NotHandled, "TEAM_VELOCITY", page) ELSE NotHandled
  IN IF ~tv.handled /\ "smartpath" \in page.markers
       THEN try_parser(tv, "SMARTPATH", page) ELSE tv

\* except DealerOnParseError
dealer_on_fallback(page) == after_team_velocity(after_smartpath(NotHandled, page), page)

\* Variant: the last parser of the list that finds rows is accepted.
try_fallback_parsers_last(page) ==
  LET hits == {i \in DOMAIN SMARTPATH_FALLBACK_PARSERS :
                 SMARTPATH_FALLBACK_PARSERS[i] \in page.rows}
  IN IF hits = {}
       THEN [backend |-> "", has_rows |-> FALSE, tried |-> SMARTPATH_FALLBACK_PARSERS]
       ELSE [backend |-> SMARTPATH_FALLBACK_PARSERS[CHOOSE i \in hits : \A j \in hits : j <= i],
             has_rows |-> TRUE, tried |-> SMARTPATH_FALLBACK_PARSERS]

\* _try_fallback_parsers: the parsers in the order of the list; one that
\* raises or finds no rows is passed over; the first with rows is returned.
try_fallback_parsers(page) ==
  LET hits == {i \in DOMAIN SMARTPATH_FALLBACK_PARSERS :
                 SMARTPATH_FALLBACK_PARSERS[i] \in page.rows}
  IN IF hits = {}
       THEN [backend |-> "", has_rows |-> FALSE, tried |-> SMARTPATH_FALLBACK_PARSERS]
       ELSE [backend |-> SMARTPATH_FALLBACK_PARSERS[CHOOSE i \in hits : \A j \in hits : i <= j],
             has_rows |-> TRUE,
             tried |-> SubSeq(SMARTPATH_FALLBACK_PARSERS, 1,
                              CHOOSE i \in hits : \A j \in hits : i <= j)]

\* break out of the retry loop: the task is marked failed with last_error.
chain_failed(c, error) == [c EXCEPT !.pc = "failed", !.status = "failed", !.error = error]

\* rows (maybe none) in hand: on to _persist_results or _handle_no_inventory.
chain_to_persist(c, page, has_rows, backend) ==
  [c EXCEPT !.pc = "persist", !.page = page, !.has_rows = has_rows,
            !.effective_backend = backend]

on_dealer_on_error(c, page, fb) ==
  IF fb.handled
    THEN chain_to_persist([c EXCEPT !.tried = @ \o fb.tried], page, fb.has_rows, c.backend)
    ELSE chain_failed([c EXCEPT !.tried = @ \o fb.tried, !.page = page],
                      IF fb.last_exc # "" THEN fb.last_exc ELSE "DealerOnParseError")

\* _smartpath_fallback_urls: the candidates, as paths under the homepage.
candidates ==
  <<"/inventory/new/toyota/{slug}", "/inventory/new/{slug}",
    "/inventory/new-toyota-{slug}", "/inventory/new-{slug}">>

\* The fallback URL fetched when urls_left of them are still to be tried.
fallback_url(urls_left) == candidates[Len(candidates) - urls_left + 1]

\* except SmartPathParseError: the first fallback URL is fetched, if any.
on_smartpath_error(c, page) ==
  IF smartpath_fallback_urls(c.has_homepage) = 0
    THEN chain_failed([c EXCEPT !.page = page], "SmartPathParseError")
    ELSE [c EXCEPT !.pc = "fallback", !.page = page,
                   !.urls = smartpath_fallback_urls(c.has_homepage),
                   !.tried = Append(@, fallback_url(smartpath_fallback_urls(c.has_homepage))),
                   !.fetches = @ + 1]

\* The next fallback URL is fetched; after the last one the task fails.
next_fallback_url(c) ==
  IF c.urls > 1
    THEN [c EXCEPT !.urls = @ - 1, !.tried = Append(@, fallback_url(c.urls - 1)),
                   !.fetches = @ + 1]
    ELSE chain_failed([c EXCEPT !.urls = 0], "SmartPathParseError")

on_fallback_page(c, page, found) ==
  IF found.has_rows
    THEN chain_to_persist([c EXCEPT !.tried = @ \o found.tried], page, TRUE,
                          IF found.backend # "" THEN found.backend ELSE c.effective_backend)
    ELSE next_fallback_url([c EXCEPT !.tried = @ \o found.tried])

\* The task is marked running and its URL is fetched.
ChainBegin(backend, has_homepage) ==
  /\ chain.pc = "idle"
  /\ chain' = [ChainIdle EXCEPT !.pc = "fetching", !.backend = backend,
                                !.effective_backend = backend,
                                !.has_homepage = has_homepage,
                                !.tried = <<"fetch">>, !.fetches = 1]
  /\ UNCHANGED chainFrame

\* The fetch returned page: rows = parser(content) and its except clauses.
ChainFetched(page) ==
  /\ chain.pc = "fetching"
  /\ chain' =
       IF parse(chain.backend, page) # "raise"
         THEN chain_to_persist([chain EXCEPT !.tried = Append(@, chain.backend)], page,
                               parse(chain.backend, page) = "rows", chain.backend)
       ELSE IF chain.backend = "DEALERON"
         THEN on_dealer_on_error([chain EXCEPT !.tried = Append(@, chain.backend)], page,
                                 dealer_on_fallback(page))
       ELSE IF chain.backend = "SMARTPATH"
         THEN on_smartpath_error([chain EXCEPT !.tried = Append(@, chain.backend)], page)
       ELSE chain_failed([chain EXCEPT !.tried = Append(@, chain.backend), !.page = page],
                         ParseErrorOf(chain.backend))
  /\ UNCHANGED chainFrame

\* The fetch of a fallback URL returned page.
ChainFallbackFetched(page) ==
  /\ chain.pc = "fallback"
  /\ chain' = on_fallback_page(chain, page, try_fallback_parsers(page))
  /\ UNCHANGED chainFrame

\* The fetch of a fallback URL raised FirecrawlError: continue.
ChainFallbackFetchError ==
  /\ chain.pc = "fallback"
  /\ chain' = next_fallback_url([chain EXCEPT !.tried = Append(@, "fetch_error")])
  /\ UNCHANGED chainFrame

\* _persist_results (rows) or _handle_no_inventory (none) returned: the
\* observations carry backend_override in payload.firecrawl.backend, and
\* the task is marked success.
ChainPersisted ==
  /\ chain.pc = "persist"
  /\ chain' = [chain EXCEPT !.pc = "success", !.status = "success",
                            !.payload_backend = IF chain.has_rows
                                                  THEN chain.effective_backend ELSE ""]
  /\ UNCHANGED chainFrame

NextChain ==
  \/ \E backend \in ChainBackends, has_homepage \in BOOLEAN : ChainBegin(backend, has_homepage)
  \/ \E page \in PrimaryPages : ChainFetched(page)
  \/ \E page \in FallbackPages : ChainFallbackFetched(page)
  \/ ChainFallbackFetchError
  \/ ChainPersisted

SpecChain == Init /\ [][NextChain]_vars

(***************************************************************************)
(* FirecrawlClient._post: the loop of posts to the transport.  A response  *)
(* is a transport error (httpx.RequestError raised by post) or an HTTP     *)
(* response with a status and a body that is JSON or not.                  *)
(***************************************************************************)
postFrame == <<db, jobVars, gate, bucket, replay, io, chain, meter, urlCall>>

RETRYABLE_STATUS == {429, 500, 502, 503, 504}

Statuses == RETRYABLE_STATUS \cup {200, 400, 404}

TransportError == [kind |-> "transport", status |-> 0, json |-> FALSE]

Responses ==
  {TransportError}
    \cup {[kind |-> "http", status |-> st, json |-> TRUE] : st \in Statuses}
    \cup {[kind |-> "http", status |-> 200, json |-> FALSE]}

\* _maybe_wait(attempts): no sleep after the last attempt.
maybe_wait(p) == IF p.attempts >= p.max_attempts - 1 THEN p ELSE [p EXCEPT !.waits = @ + 1]

\* After the loop: last_error is raised as it is when it is a
\* FirecrawlError, wrapped in a FirecrawlError otherwise.
raise_last_error(p) ==
  IF p.last_error = "FirecrawlRetryableError"
    THEN [p EXCEPT !.pc = "raised", !.raised = "FirecrawlRetryableError",
                   !.message = "Firecrawl returned a retryable status"]
  ELSE IF p.last_error # ""
    THEN [p EXCEPT !.pc = "raised", !.raised = "FirecrawlError", !.message = p.last_error]
  ELSE [p EXCEPT !.pc = "raised", !.raised = "FirecrawlError",
                 !.message = "Firecrawl request failed"]

\* attempts += 1; continue: post again while attempts < self.max_attempts.
next_attempt(p) ==
  IF p.attempts + 1 < p.max_attempts
    THEN [p EXCEPT !.attempts = @ + 1]
    ELSE raise_last_error([p EXCEPT !.attempts = @ + 1])

\* last_error = ...; await self._maybe_wait(attempts); attempts += 1; continue
retry(p, error) == next_attempt(maybe_wait([p EXCEPT !.last_error = error]))

\* raise FirecrawlError(...) from exc
raise_terminal(p, message) ==
  [p EXCEPT !.pc = "raised", !.raised = "FirecrawlError", !.message = message]

\* _post is called and posts for the first time.
PostCall(max_attempts_arg) ==
  /\ post.pc = "idle"
  /\ post' = [PostIdle EXCEPT !.pc = "posting", !.max_attempts = Max2(1, max_attempts_arg)]
  /\ UNCHANGED postFrame

\* The transport answered the post that is under way.
PostAnswered(response) ==
  /\ post.pc = "posting"
  /\ post' =
       IF response.kind = "transport"
         THEN retry([post EXCEPT !.responses = Append(@, response)], "RequestError")
       ELSE IF response.status \in RETRYABLE_STATUS
         THEN retry([post EXCEPT !.responses = Append(@, response)], "FirecrawlRetryableError")
       ELSE IF response.status >= 400
         THEN raise_terminal([post EXCEPT !.responses = Append(@, response)], "HTTPStatusError")
       ELSE IF ~response.json
         THEN raise_terminal([post EXCEPT !.responses = Append(@, response)],
                             "Invalid JSON from Firecrawl")
       ELSE [post EXCEPT !.responses = Append(@, response), !.pc = "returned"]
  /\ UNCHANGED postFrame

NextPost ==
  \/ \E max_attempts_arg \in 0..MaxPostAttempts : PostCall(max_attempts_arg)
  \/ \E response \in Responses : PostAnswered(response)

SpecPost == Init /\ [][NextPost]_vars


(***************************************************************************)
(* Properties.                                                             *)
(***************************************************************************)
Status(k) == Val(db.listings[k]).status

IsKind(entry, kind) == entry.kind = kind

AllRetryable(log) == log # <<>> /\ \A i \in 1..Len(log) : IsKind(log[i], "retryable")

Finished(t) == tpc[t] \in {"done", "raised"}

\* C1: two-miss rule over separate run_job calls.  For a listing of the
\* scraped dealer and model with source_rank null or <= 50, the first
\* successful scrape without its VIN leaves it missing, the second
\* consecutive one sold, and every further one sold.  misses counts the
\* consecutive successful scrapes that did not contain the VIN.
C1_TwoMissRule ==
  \A k \in ListingKeys :
    /\ misses[k] >= 1 => ~IsNone(db.listings[k])
    /\ misses[k] = 1 => Status(k) = "missing"
    /\ misses[k] >= 2 => Status(k) = "sold"

C1_ThreeMisses ==
  /\ jobNo = 3
  /\ runPc = "returned"
  /\ misses[<<1, "V1">>] = 3
  /\ Status(<<1, "V1">>) = "sold"

\* C2: the status run_job persists when it closes the job is success when no
\* task record of the job failed, partial when some succeeded and some
\* failed, failed when none succeeded, counting every task record of the
\* job, those that failed at URL build included.
C2_StatusOverAllTaskRecords ==
  runPc = "returned" =>
    LET failed == {i \in DOMAIN tasks : tasks[i].status = "failed"}
        succeeded == {i \in DOMAIN tasks : tasks[i].status = "success"}
    IN Val(job).status = IF failed = {} THEN "success"
                         ELSE IF succeeded # {} THEN "partial" ELSE "failed"

\* C3: a run_job call that has ended has closed its job record with status
\* success, partial or failed, and a task whose processing raised is
\* recorded failed.
C3_JobClosedAndErrorsRecorded ==
  /\ runPc \in {"returned", "raised"} =>
       Val(job).completed /\ Val(job).status \in {"success", "partial", "failed"}
  /\ \A t \in TaskIds : tpc[t] = "raised" => tasks[t].status = "failed"

\* C4: when the database raises while a task reconciles its rows, in the
\* upsert or in the absence update, the task's record ends failed with the
\* error message.
C4_StoreErrorFailsTask ==
  \A t \in TaskIds :
    fault[t] \in {"upsert", "absent"} =>
      tasks[t].status = "failed" /\ ~IsNone(tasks[t].error)

\* C5: upsert_observations_and_listings is all-or-nothing per batch.  A step
\* in which a task's upsert raises leaves every table as it was; a price
\* event is persisted only together with the update of its listing, and a
\* persisted change of a listing's known price comes with its price events.
NewPriceEvents ==
  {db'.price_events[i] : i \in (Len(db.price_events) + 1)..Len(db'.price_events)}

PriceOf(dbv, k) ==
  IF IsNone(dbv.listings[k]) THEN None ELSE Val(dbv.listings[k]).advertised_price

C5_AllOrNothingStep ==
  /\ (\E t \in TaskIds : fault[t] # "upsert" /\ fault'[t] = "upsert") => db' = db
  /\ \A e \in NewPriceEvents :
       LET k == <<e.dealer_id, e.vin>>
       IN /\ db'.listings[k] # db.listings[k]
          /\ Val(db'.listings[k]).last_seen_at >= e.observed_at
          /\ \E o \in {db'.observations[i] : i \in (Len(db.observations) + 1)..Len(db'.observations)} :
               o.dealer_id = e.dealer_id /\ o.vin = e.vin
                 /\ o.advertised_price = Some(e.new_price)
  /\ \A k \in ListingKeys :
       (~IsNone(PriceOf(db, k)) /\ PriceOf(db', k) # PriceOf(db, k)) =>
          /\ \E e \in NewPriceEvents :
               <<e.dealer_id, e.vin>> = k /\ Some(e.old_price) = PriceOf(db, k)
          /\ \E e \in NewPriceEvents :
               <<e.dealer_id, e.vin>> = k /\ Some(e.new_price) = PriceOf(db', k)

C5_AllOrNothing == [][C5_AllOrNothingStep]_vars

C5_RolledBackAfterPersisted ==
  /\ db.price_events # <<>>
  /\ \E t \in TaskIds :
       /\ fault[t] = "upsert"
       /\ Len(fetch_log[t]) > 0
       /\ fetch_log[t][Len(fetch_log[t])].msg = "rows"
       /\ IsNone(db.listings[<<tasks[t].dealer_id, "V1">>])

\* C6: a task record's status moves only along pending -> running ->
\* success or failed; success and failed are terminal for the job.
StatusMoves == {<<"pending", "running">>, <<"running", "success">>, <<"running", "failed">>}

C6_LifecycleStep ==
  jobNo' = jobNo =>
    /\ DOMAIN tasks' = DOMAIN tasks
    /\ \A i \in DOMAIN tasks :
         \/ tasks'[i].status = tasks[i].status
         \/ <<tasks[i].status, tasks'[i].status>> \in StatusMoves

C6_Lifecycle == [][C6_LifecycleStep]_vars

C6_CreatedFailedBesideSuccess ==
  /\ runPc = "returned"
  /\ Len(tasks) = 2
  /\ tasks[1].status = "success"
  /\ tasks[2].status = "failed"
  /\ tpc[2] = "none"

\* C7: when every fetch attempt of a task raises a retryable error, exactly
\* max_attempts fetch calls are made, the task is then failed with the last
\* error's message, and the job counts it in fail_count.
C7_RetriesExhausted ==
  \A t \in TaskIds :
    AllRetryable(fetch_log[t]) =>
      LET n == Len(fetch_log[t])
      IN /\ n <= max_attempts
         /\ tpc[t] = "fetching" => n < max_attempts
         /\ n < max_attempts => tpc[t] = "fetching"
         /\ n = max_attempts =>
              /\ tpc[t] = "done"
              /\ results[t] = "failed"
              /\ tasks[t].status = "failed"
              /\ tasks[t].error = Some(fetch_log[t][n].msg)
              /\ acquired[t] = max_attempts
              /\ runPc = "returned" =>
                   /\ Val(job).fail_count >= 1
                   /\ Val(job).fail_count =
                        Cardinality({u \in Gathered : tasks[u].status = "failed"})
                   /\ Val(job).status \in {"partial", "failed"}

C7_TwoAttemptsCounted ==
  /\ max_attempts = 2
  /\ runPc = "returned"
  /\ \E t \in TaskIds :
       /\ AllRetryable(fetch_log[t])
       /\ Len(fetch_log[t]) = 2
       /\ tasks[t].status = "failed"
  /\ Val(job).fail_count >= 1

\* C8 (as the code has it): when the first k fetch attempts raise retryable
\* errors and attempt k+1 returns a page that parses to at least one row,
\* exactly k+1 fetch calls are made, none after the successful one, and the
\* task ends success provided storing the page and reconciling its rows do
\* not raise.
GotRows(t, i) == IsKind(fetch_log[t][i], "ok") /\ fetch_log[t][i].msg = "rows"

CannotBuild(d, model) ==
  \/ model \notin {"4Runner", "Tacoma"}
  \/ \E p \in DealerCatalog[d].placeholders \ {"city_code"} :
       /\ p \notin DealerCatalog[d].tokens
       /\ p \notin MODEL_REGISTRY[model]

C10_UnbuildableFailsAtCreation ==
  \A i \in DOMAIN tasks :
    IF CannotBuild(runDealers[i], runModel)
      THEN /\ tasks[i].status = "failed"
           /\ ~IsNone(tasks[i].error)
           /\ tpc[i] = "none"
           /\ acquired[i] = 0
           /\ attempt[i] = 0
           /\ fetch_log[i] = <<>>
           /\ steps[i] = {}
      ELSE /\ tpc[i] # "none"
           /\ runPc = "returned" => tasks[i].status \in {"success", "failed"}

C10_OtherDealerProcessed ==
  /\ runPc = "returned"
  /\ runModel = "Tacoma"
  /\ runDealers = <<1, 2>>
  /\ tasks[2].status = "failed"
  /\ tasks[2].error = Some("Missing placeholder token(s)")
  /\ fetch_log[2] = <<>>
  /\ Len(fetch_log[1]) > 0
  /\ tasks[1].status = "success"

\* C11 (as the code has it): when a fetch succeeds and the parser and any
\* API follow-up yield no rows, no observation is created and, provided the
\* blob write and the absence update do not raise, the task ends success
\* and the absence reconciler has run with an empty observed set: every
\* listing of the dealer and model with source_rank null or <= 50 advances
\* one miss, every other listing is untouched.
LastFetch(log) == log[Len(log)]

NoRowsReconcile(t) ==
  \/ /\ tpc[t] = "blob"
     /\ fetched[t].rows = <<>>
     /\ tpc'[t] # "blob"
  \/ /\ tpc[t] = "fetching"
     /\ tpc'[t] \in {"done", "raised"}
     /\ Len(fetch_log'[t]) = Len(fetch_log[t]) + 1
     /\ LastFetch(fetch_log'[t]) = [kind |-> "ok", msg |-> "empty"]

InScope(k, dealer_id, model) ==
  /\ k[1] = dealer_id
  /\ ~IsNone(db.listings[k])
  /\ ~IsNone(db.vehicles[k[2]])
  /\ Val(db.vehicles[k[2]]).model = model
  /\ \/ IsNone(Val(db.listings[k]).source_rank)
     \/ Val(Val(db.listings[k]).source_rank) <= 50

OneMissOn(listing) ==
  [listing EXCEPT !.status = IF @ \in {"missing", "sold"} THEN "sold" ELSE "missing"]

C11_NoRowsStep ==
  \A t \in TaskIds :
    NoRowsReconcile(t) =>
      /\ db'.observations = db.observations
      /\ db'.price_events = db.price_events
      /\ db'.vehicles = db.vehicles
      /\ tpc'[t] = "raised" => fault'[t] \in {"blob", "absent"} /\ db' = db
      /\ tpc'[t] = "done" =>
           /\ tasks'[t].status = "success"
           /\ results'[t] = "success"
           /\ \A k \in ListingKeys :
                db'.listings[k] =
                  IF InScope(k, tasks[t].dealer_id, runModel)
                    THEN Some(OneMissOn(Val(db.listings[k])))
                    ELSE db.listings[k]

C12_CancelledTasksFailed ==
  runPc = "cancelled" =>
    \A i \in DOMAIN tasks :
      (tpc[i] = "cancelled" /\ acquired[i] > 0) =>
        tasks[i].status = "failed" /\ ~IsNone(tasks[i].error)

\* C13: the number of fetch-client calls in flight, those for SmartPath
\* fallback URLs included, is at most MAX_CONCURRENCY.
C13_InFlightCapped == gate.fetching + gate.fallback <= MAX_CONCURRENCY

\* C14: token-bucket acquisition is starvation-free.  With several callers
\* of acquire(n), n <= capacity, calling again and again and time advancing,
\* every call eventually returns.
C14_EveryAcquireReturns ==
  \A c \in Callers : (bucket.pc[c] # "idle") ~> (bucket.pc[c] = "idle")

C14_QueuedBehindSleeper ==
  /\ Len(bucket.waiters) = 2
  /\ bucket.holder # 0
  /\ bucket.pc[bucket.holder] = "sleep"
  /\ bucket.tokens < bucket.n[bucket.holder]

\* C15: a committed batch adds exactly the price events its rows are due, in
\* row order: a row is due one when its listing holds a price as the rows
\* before it left it, the row has a price (its advertised_price, or its msrp
\* when it has no advertised_price) and the two differ; the event carries the
\* replaced price, the new price and new - old.  A created listing, a row
\* with no price, a listing with no price and equal prices are due none, and
\* a batch that raises adds none.
KeyOf(row) == <<row.dealer_id, row.vin>>

PricesOf(dbv) == [k \in ListingKeys |-> PriceOf(dbv, k)]

EventDue(cur, row) ==
  /\ ~IsNone(cur[KeyOf(row)])
  /\ ~IsNone(RowPrice(row))
  /\ RowPrice(row) # cur[KeyOf(row)]

DueEvent(cur, row) ==
  [dealer_id |-> row.dealer_id, vin |-> row.vin, observed_at |-> row.observed_at,
   old_price |-> Val(cur[KeyOf(row)]), new_price |-> Val(RowPrice(row)),
   delta |-> Val(RowPrice(row)) - Val(cur[KeyOf(row)])]

PricesAfter(cur, row) ==
  IF IsNone(RowPrice(row)) THEN cur ELSE [cur EXCEPT ![KeyOf(row)] = RowPrice(row)]

RECURSIVE ExpectedEvents(_, _, _)
ExpectedEvents(cur, rows, i) ==
  IF i > Len(rows) THEN <<>>
  ELSE (IF EventDue(cur, rows[i]) THEN <<DueEvent(cur, rows[i])>> ELSE <<>>)
         \o ExpectedEvents(PricesAfter(cur, rows[i]), rows, i + 1)

C15_PriceEventStep ==
  replay' # replay =>
    db'.price_events =
      db.price_events \o (IF replay'.committed
                            THEN ExpectedEvents(PricesOf(db), replay'.rows, 1)
                            ELSE <<>>)

C15_PriceEvents == [][C15_PriceEventStep]_vars

\* A batch has replaced a listing's price by the MSRP of a row that carries
\* no advertised_price, and the event records it.
C15_EventFromMsrpRow ==
  /\ replay.op = "reconcile"
  /\ replay.committed
  /\ Len(replay.rows) = 1
  /\ RowAssumed(replay.rows[1])
  /\ db.price_events # <<>>
  /\ db.price_events[Len(db.price_events)].vin = replay.rows[1].vin
  /\ Some(db.price_events[Len(db.price_events)].new_price) = replay.rows[1].msrp

\* C15 as stated: every event of a batch is for a row whose own
\* advertised_price is the new price.
C15_EventOnlyForPricedRowStep ==
  \A e \in NewPriceEvents :
    \E i \in DOMAIN replay'.rows :
      /\ KeyOf(replay'.rows[i]) = <<e.dealer_id, e.vin>>
      /\ replay'.rows[i].advertised_price = Some(e.new_price)

C15_EventOnlyForPricedRow == [][C15_EventOnlyForPricedRowStep]_vars

\* C16: the price events of one listing, ordered by observed_at (events of
\* equal observed_at in the order they were written), chain: the new_price
\* of each is the old_price of the next.
SameListing(e, f) == e.dealer_id = f.dealer_id /\ e.vin = f.vin

EventBefore(i, j) ==
  /\ SameListing(db.price_events[i], db.price_events[j])
  /\ \/ db.price_events[i].observed_at < db.price_events[j].observed_at
     \/ /\ db.price_events[i].observed_at = db.price_events[j].observed_at
        /\ i < j

C16_PriceChain ==
  \A i, j \in DOMAIN db.price_events :
    (/\ EventBefore(i, j)
     /\ ~\E m \in DOMAIN db.price_events : EventBefore(i, m) /\ EventBefore(m, j))
      => db.price_events[i].new_price = db.price_events[j].old_price

\* C20: applying the batch of a committed call a second time, unchanged,
\* adds one observation per row and no price event and leaves every listing
\* as the first application left it.
C20_ReplayStep ==
  (replay.op = "reconcile" /\ replay'.op = "replay") =>
    /\ Len(db'.observations) = Len(db.observations) + Len(replay.rows)
    /\ db'.price_events = db.price_events
    /\ db'.listings = db.listings

C20_ReplayIdempotent == [][C20_ReplayStep]_vars

\* C17: no reconcile batch and no absence pass raises the source_rank of a
\* listing: a listing stays, a rank it holds is never replaced by NULL or by
\* a greater one, whatever rank the rows carry.
RankOf(dbv, k) == Val(dbv.listings[k]).source_rank

C17_RankStep ==
  \A k \in ListingKeys :
    ~IsNone(db.listings[k]) =>
      /\ ~IsNone(db'.listings[k])
      /\ ~IsNone(RankOf(db, k)) =>
           /\ ~IsNone(RankOf(db', k))
           /\ Val(RankOf(db', k)) <= Val(RankOf(db, k))

C17_RankNeverIncreases == [][C17_RankStep]_vars

\* A row of rank 100 has been applied to a listing an earlier row lowered
\* to rank 0, and the listing kept rank 0.
C17_HigherRankRowIgnored ==
  /\ replay.op = "reconcile"
  /\ replay.committed
  /\ replay.rows[1].source_rank = Some(DEFAULT_SOURCE_RANK)
  /\ ~IsNone(db.listings[KeyOf(replay.rows[1])])
  /\ RankOf(db, KeyOf(replay.rows[1])) = Some(0)

\* C18: every stored listing has first_seen_at <= last_seen_at.
C18_SeenWindowOrdered ==
  \A k \in ListingKeys :
    ~IsNone(db.listings[k]) =>
      Val(db.listings[k]).first_seen_at <= Val(db.listings[k]).last_seen_at

\* C19: the observed_at of every stored observation lies between the
\* first_seen_at and the last_seen_at of the listing of its dealer and VIN.
C19_ObservationInWindow ==
  \A i \in DOMAIN db.observations :
    /\ ~IsNone(db.listings[KeyOf(db.observations[i])])
    /\ Val(db.listings[KeyOf(db.observations[i])]).first_seen_at
         <= db.observations[i].observed_at
    /\ db.observations[i].observed_at
         <= Val(db.listings[KeyOf(db.observations[i])]).last_seen_at

\* C21: a committed batch appends one observation per row, in row order and
\* for the row's dealer and VIN; a batch that raises appends none; and no
\* reconcile batch, replay or absence pass changes or removes an observation
\* already stored.
StoredBefore == SubSeq(db'.observations, 1, Len(db.observations))

AppendedAt(i) == db'.observations[Len(db.observations) + i]

C21_AuditTrailStep ==
  /\ Len(db'.observations) >= Len(db.observations)
  /\ StoredBefore = db.observations
  /\ replay' # replay =>
       /\ Len(db'.observations) =
            Len(db.observations) + (IF replay'.committed THEN Len(replay'.rows) ELSE 0)
       /\ replay'.committed =>
            \A i \in DOMAIN replay'.rows :
              /\ KeyOf(AppendedAt(i)) = KeyOf(replay'.rows[i])
              /\ AppendedAt(i).observed_at = replay'.rows[i].observed_at

C21_AuditTrail == [][C21_AuditTrailStep]_vars

\* A committed batch of two rows, one of them without any price, has been
\* added to observations stored before, and an absence pass had run.
C21_TwoRowsAppended ==
  /\ replay.op = "reconcile"
  /\ replay.committed
  /\ Len(replay.rows) = 2
  /\ \E i \in 1..2 : IsNone(RowPrice(replay.rows[i]))
  /\ Len(db.observations) > 2
  /\ \E k \in ListingKeys :
       ~IsNone(db.listings[k]) /\ Val(db.listings[k]).status = "missing"

\* C22: after a committed batch the listing of each row holds
\* price_delta_msrp = advertised_price - effective MSRP (the row's msrp, else
\* the vehicle's) when both are known, and NULL when either is not.
EffectiveMsrp(dbv, row) ==
  IF ~IsNone(row.msrp) THEN row.msrp ELSE Val(dbv.vehicles[row.vin]).msrp

C22_DeltaStep ==
  (replay' # replay /\ replay'.committed) =>
    \A i \in DOMAIN replay'.rows :
      Val(db'.listings[KeyOf(replay'.rows[i])]).price_delta_msrp =
        PriceDelta(Val(db'.listings[KeyOf(replay'.rows[i])]).advertised_price,
                   EffectiveMsrp(db', replay'.rows[i]), None)

C22_DeltaFromEffectiveMsrp == [][C22_DeltaStep]_vars

\* C23: an absence pass for a dealer and a model changes a listing only if
\* it is of that dealer, its vehicle is of that model, its source_rank is
\* NULL or at most 50 and its VIN was not observed; every other listing, and
\* every vehicle, is left as it was.
InAbsenceScope(k, dealer_id, model, observed_vins) ==
  /\ k[1] = dealer_id
  /\ ~IsNone(db.vehicles[k[2]])
  /\ Val(db.vehicles[k[2]]).model = model
  /\ IsNone(RankOf(db, k)) \/ Val(RankOf(db, k)) <= 50
  /\ k[2] \notin observed_vins

C23_AbsenceFrameStep ==
  (replay' # replay /\ replay'.op = "absence") =>
    /\ db'.vehicles = db.vehicles
    /\ \A k \in ListingKeys :
         db'.listings[k] # db.listings[k] =>
           InAbsenceScope(k, replay'.dealer_id, replay'.model, replay'.observed_vins)

C23_AbsenceFrame == [][C23_AbsenceFrameStep]_vars

\* An absence pass has marked an unobserved scrape listing of its dealer and
\* model missing and left an unobserved upload listing (rank 80) of the same
\* dealer and model available.
C23_UploadListingSpared ==
  /\ replay.op = "absence"
  /\ \E k, u \in ListingKeys :
       /\ k[1] = replay.dealer_id /\ u[1] = replay.dealer_id
       /\ {k[2], u[2]} \cap replay.observed_vins = {}
       /\ ~IsNone(db.listings[k]) /\ ~IsNone(db.listings[u])
       /\ Val(db.vehicles[k[2]]).model = replay.model
       /\ Val(db.vehicles[u[2]]).model = replay.model
       /\ Val(db.listings[k]).status = "missing"
       /\ RankOf(db, u) = Some(SOURCE_RANK_UPLOAD)
       /\ Val(db.listings[u]).status = "available"

\* C24: a sold listing leaves sold only in a step that stores an
\* observation of its dealer and VIN; no scrape job in which the VIN is not
\* observed changes the status of a sold listing.
IsSold(dbv, k) == ~IsNone(dbv.listings[k]) /\ Val(dbv.listings[k]).status = "sold"

ObservedInStep(k) ==
  \E i \in (Len(db.observations) + 1)..Len(db'.observations) :
    KeyOf(db'.observations[i]) = k

C24_SoldStaysStep ==
  \A k \in ListingKeys :
    (IsSold(db, k) /\ ~IsSold(db', k)) => ObservedInStep(k)

C24_SoldStaysUnlessObserved == [][C24_SoldStaysStep]_vars

\* The third job has stored rows for another VIN of the dealer while the
\* listing that two earlier jobs had made sold is still sold.
C24_SoldAfterLaterJob ==
  /\ jobNo = 3
  /\ IsSold(db, <<1, "V1">>)
  /\ misses[<<1, "V1">>] = 3
  /\ ~IsNone(db.listings[<<1, "V2">>])

\* C24 as stated: once sold, always sold.
C24_SoldStep == \A k \in ListingKeys : IsSold(db, k) => IsSold(db', k)

C24_SoldForever == [][C24_SoldStep]_vars

\* C25: a template whose query has cy={city_code}, built for a dealer with no
\* city_code (absent or empty) and every other token present, does not
\* raise and gives the URL of the same template without its cy parameters:
\* no cy= is left, and no "?&", "&&" or trailing "?" or "&", wherever the
\* parameter sits.
RECURSIVE WithoutCy(_)
WithoutCy(ps) ==
  IF ps = <<>> THEN <<>>
  ELSE (IF Head(ps) = CY THEN <<>> ELSE <<Head(ps)>>) \o WithoutCy(Tail(ps))

HasCy(ps) == \E i \in DOMAIN ps : ps[i] = CY

NoCityCode(call) == IsNone(call.city_code) \/ call.city_code = Some(<<>>)

OthersPresent(call) ==
  (\E i \in DOMAIN call.params : call.params[i] = DC) => ~IsNone(call.dealer_code)

Dangling(url) ==
  \/ url # <<>> /\ url[Len(url)] \in {"?", "&"}
  \/ \E i \in 1..(Len(url) - 1) :
       /\ url[i] \in {"?", "&"}
       /\ url[i + 1] \in {"?", "&"}
  \/ \E i \in 1..(Len(url) - 2) : url[i] = "c" /\ url[i + 1] = "y" /\ url[i + 2] = "="

C25_MissingCityCodeTolerated ==
  (HasCy(urlCall.params) /\ NoCityCode(urlCall) /\ OthersPresent(urlCall)) =>
    /\ ~urlCall.raised
    /\ ~Dangling(urlCall.url)
    /\ urlCall.url =
         HomepageUrl \o substitute(TemplateOf(WithoutCy(urlCall.params)),
                                   BaseTokens(None, urlCall.dealer_code))

\* The cy parameter stood first, before two others, and is gone.
C25_FirstOfThreeRemoved ==
  /\ Len(urlCall.params) = 3
  /\ urlCall.params[1] = CY
  /\ urlCall.params[2] # CY /\ urlCall.params[3] # CY
  /\ NoCityCode(urlCall)
  /\ ~urlCall.raised
  /\ ~Dangling(urlCall.url)

\* C26: a closed job has success_count + fail_count = target_count, the
\* number of dealers given to run_job.
C26_CountersAddUp ==
  (~IsNone(job) /\ Val(job).completed) =>
    /\ Val(job).target_count = Len(runDealers)
    /\ Val(job).success_count + Val(job).fail_count = Val(job).target_count

\* C27: while a job record is closed (status success, partial or failed,
\* completed_at set), every task record of the job is success or failed;
\* the step that closes it finds none pending or running.
JobClosed == ~IsNone(job) /\ Val(job).completed

C27_ClosedAfterTasks ==
  JobClosed =>
    /\ Val(job).status \in {"success", "partial", "failed"}
    /\ \A i \in DOMAIN tasks : tasks[i].status \in {"success", "failed"}

\* A job of two dealers is closed partial: one task succeeded after
\* fetching, the other failed.
C27_ClosedPartial ==
  /\ JobClosed
  /\ Val(job).status = "partial"
  /\ Len(tasks) = 2
  /\ \E i, j \in DOMAIN tasks :
       /\ tasks[i].status = "success"
       /\ tasks[j].status = "failed"
       /\ Len(fetch_log[j]) > 0

\* C28: every call of the fetch client and every API follow-up request of a
\* task comes after a token acquisition of its own (one made since the
\* call or request before it); the token of the main fetch is acquired
\* before the slot is entered, and no token is acquired while the slot is
\* held.
IsRequest(e) == e \in {"fetch", "fallback_fetch", "api"}

OwnTokenBefore(log, i) ==
  \E j \in 1..(i - 1) :
    /\ log[j] = "token"
    /\ \A m \in (j + 1)..(i - 1) : ~IsRequest(log[m])

SlotHeldAt(log, i) ==
  Cardinality({j \in 1..(i - 1) : log[j] = "slot"})
    > Cardinality({j \in 1..(i - 1) : log[j] = "release"})

C28_TokenBeforeEveryRequest ==
  \A i \in DOMAIN io.log :
    /\ IsRequest(io.log[i]) => OwnTokenBefore(io.log, i)
    /\ io.log[i] = "token" => ~SlotHeldAt(io.log, i)
    /\ io.log[i] = "slot" => (i > 1 /\ io.log[i - 1] = "token")

\* C29: acquire(n) returns only from a state in which tokens >= n held just
\* before the deduction, and the tokens of the bucket stay within
\* 0..capacity in every reachable state, whatever the interleaving of the
\* concurrent calls.
TokensInRange == 0 <= bucket.tokens /\ bucket.tokens <= BucketCapacity

\* Caller c leaves acquire in this step with n tokens.
Returns(c, n) ==
  /\ bucket'.pc[c] = "idle"
  /\ bucket'.tokens # bucket.tokens \/ bucket'.holder # bucket.holder
       \/ bucket.pc[c] # "idle"
  /\ IF bucket.pc[c] = "idle" THEN bucket.holder = 0 /\ bucket.waiters = <<>>
                              ELSE bucket.pc[c] \in {"woken", "sleep"} /\ n = bucket.n[c]

\* The tokens the loop leaves just before "self.tokens -= n".
BeforeDeduction(n) == refill(bucket, n).tokens

C29_ReturnStep ==
  \A c \in Callers, n \in 1..BucketCapacity :
    (Returns(c, n) /\ bucket'.tokens = BeforeDeduction(n) - n)
      => BeforeDeduction(n) >= n

C29_Deducted ==
  \A c \in Callers :
    (bucket'.pc[c] = "idle" /\ bucket.pc[c] \in {"woken", "sleep"})
      => /\ BeforeDeduction(bucket.n[c]) >= bucket.n[c]
         /\ bucket'.tokens = BeforeDeduction(bucket.n[c]) - bucket.n[c]

C29_TokensWithinCapacity ==
  /\ [](TokensInRange)
  /\ [][C29_ReturnStep /\ C29_Deducted]_vars

\* A caller has returned with the last tokens while two others are in
\* acquire, one of them woken and one still queued.
C29_ReturnedWithOthersWaiting ==
  /\ bucket.tokens = 0
  /\ \E c \in Callers : bucket.pc[c] = "woken"
  /\ \E c \in Callers : bucket.pc[c] = "queued"

\* C30: over any interval of T seconds the bucket grants at most
\* capacity + rate * T tokens (rate is one token a tick here): the time that
\* passes while the bucket is full earns no credit to spend later.
C30_GrantsBounded ==
  meter.open => meter.granted <= BucketCapacity + meter.T

\* C31: a task of a dealer whose backend_type has no parser in the registry
\* ends failed with the error 'No parser for backend'; it issues no fetch
\* (and takes no token), changes no listing, and is never reported success.
NoParser(t) ==
  /\ t <= Len(tasks)
  /\ tpc[t] # "none"
  /\ DealerCatalog[tasks[t].dealer_id].backend_type \notin PARSER_REGISTRY

C31_NoParserState ==
  \A t \in TaskIds :
    NoParser(t) =>
      /\ fetch_log[t] = <<>> /\ acquired[t] = 0 /\ steps[t] = {}
      /\ tpc[t] \in {"pending", "done"}
      /\ results[t] # "success" /\ tasks[t].status # "success"
      /\ tpc[t] = "done" =>
            /\ results[t] = "failed"
            /\ tasks[t].status = "failed"
            /\ tasks[t].error = Some("No parser for backend")

\* The step of such a task leaves the store and the gate as they are.
C31_NoParserStep ==
  \A t \in TaskIds :
    (NoParser(t) /\ tpc'[t] # tpc[t] /\ jobNo' = jobNo) =>
      /\ db' = db /\ sem' = sem /\ misses' = misses
      /\ tpc'[t] = "done"

DealerOnFailed ==
  /\ chain.backend = "DEALERON"
  /\ chain.pc \in {"persist", "success", "failed"}
  /\ "DEALERON" \in chain.page.raises

SmartTried == "smartpath" \in chain.page.markers
SmartReturned == SmartTried /\ "SMARTPATH" \notin chain.page.raises
TvTried ==
  /\ ~SmartReturned
  /\ "teamvelocityportal" \in chain.page.markers
       \/ "inventoryapibaseurl" \in chain.page.markers
TvReturned == TvTried /\ "TEAM_VELOCITY" \notin chain.page.raises

FallbackOrder == <<"TEAM_VELOCITY", "DEALER_INSPIRE", "DEALER_COM", "DEALERON",
                   "DEALER_SOCKET", "CDK">>

CandidateOrder ==
  <<"/inventory/new/toyota/{slug}", "/inventory/new/{slug}",
    "/inventory/new-toyota-{slug}", "/inventory/new-{slug}">>

IsCandidate(e) == \E i \in DOMAIN CandidateOrder : CandidateOrder[i] = e

UrlsFetched(c) == SelectSeq(c.tried, IsCandidate)

PlaceOf(b) == CHOOSE i \in DOMAIN FallbackOrder : FallbackOrder[i] = b

InFallback(c) == c.backend = "SMARTPATH" /\ Len(UrlsFetched(c)) > 0

C33_FallbackState ==
  InFallback(chain) =>
    /\ UrlsFetched(chain) = SubSeq(CandidateOrder, 1, Len(UrlsFetched(chain)))
    /\ chain.fetches = 1 + Len(UrlsFetched(chain))
    /\ chain.pc \in {"fallback", "persist", "success", "failed"}
    /\ chain.pc \in {"persist", "success"} =>
          /\ chain.has_rows
          /\ chain.effective_backend \in chain.page.rows
          /\ \A i \in 1..(PlaceOf(chain.effective_backend) - 1) :
                FallbackOrder[i] \notin chain.page.rows
    /\ chain.pc = "success" => chain.payload_backend = chain.effective_backend
    /\ chain.pc = "failed" =>
          /\ Len(UrlsFetched(chain)) = Len(CandidateOrder)
          /\ chain.status = "failed"

\* What a step adds to the log of a task that awaits a fallback fetch.
C33_FallbackStep ==
  (chain.pc = "fallback" /\ chain' # chain) =>
    \/ /\ chain'.pc = "fallback"
       /\ chain'.tried \in
            {chain.tried \o <<"fetch_error", CandidateOrder[Len(UrlsFetched(chain)) + 1]>>,
             chain.tried \o FallbackOrder \o <<CandidateOrder[Len(UrlsFetched(chain)) + 1]>>}
    \/ /\ chain'.pc = "failed"
       /\ chain'.tried \in {chain.tried \o <<"fetch_error">>, chain.tried \o FallbackOrder}
    \/ /\ chain'.pc = "persist"
       /\ chain'.tried = chain.tried
                           \o SubSeq(FallbackOrder, 1, PlaceOf(chain'.effective_backend))

\* Once rows are accepted, or the task has failed, nothing more is fetched.
C33_NoLaterFetch ==
  chain.pc \in {"persist", "success", "failed"} =>
    chain'.fetches = chain.fetches /\ UrlsFetched(chain') = UrlsFetched(chain)

Retried(response) ==
  response.kind = "transport" \/ response.status \in {429, 500, 502, 503, 504}

Terminal(response) ==
  /\ response.kind = "http"
  /\ response.status \notin {429, 500, 502, 503, 504}
  /\ response.status >= 400 \/ ~response.json

C34_RetryableKinds ==
  /\ Len(post.responses) <= Max2(1, post.max_attempts)
  /\ \A i \in 1..(Len(post.responses) - 1) : Retried(post.responses[i])
  /\ post.pc = "posting" => Len(post.responses) < post.max_attempts
  /\ post.pc = "raised" =>
        IF Retried(post.responses[Len(post.responses)])
          THEN /\ Len(post.responses) = post.max_attempts
               /\ post.raised = "FirecrawlRetryableError"
          ELSE /\ Terminal(post.responses[Len(post.responses)])
               /\ post.raised = "FirecrawlError"

\* C35: when a row has no advertised_price but an msrp, reconcile uses the
\* msrp as the advertised price of the observation and of the listing and
\* marks ad_price_equals_msrp on the observation; when the row has an
\* advertised_price, it is used unchanged and no assumption is recorded.
LastOfKey(rows, i) == \A j \in (i + 1)..Len(rows) : KeyOf(rows[j]) # KeyOf(rows[i])

PriceUsed(row, i, price, assumed) ==
  /\ AppendedAt(i).advertised_price = price
  /\ AppendedAt(i).ad_price_equals_msrp = assumed
  /\ LastOfKey(replay'.rows, i) =>
        Val(db'.listings[KeyOf(row)]).advertised_price = price

C35_PriceFallbackStep ==
  (replay'.calls = replay.calls + 1 /\ replay'.op = "reconcile" /\ replay'.committed) =>
    \A i \in DOMAIN replay'.rows :
      /\ (IsNone(replay'.rows[i].advertised_price) /\ ~IsNone(replay'.rows[i].msrp)) =>
            PriceUsed(replay'.rows[i], i, replay'.rows[i].msrp, TRUE)
      /\ ~IsNone(replay'.rows[i].advertised_price) =>
            PriceUsed(replay'.rows[i], i, replay'.rows[i].advertised_price, FALSE)

C35_PriceFallback == [][C35_PriceFallbackStep]_vars

\* A listing took the MSRP of a row without price as its price, after a row
\* that had both a price and an MSRP.
C35_MsrpAfterPricedRow ==
  /\ Len(db.observations) = 2
  /\ db.observations[1].vin = "V1" /\ db.observations[2].vin = "V1"
  /\ db.observations[1].advertised_price = Some(1)
  /\ db.observations[1].msrp = Some(3)
  /\ ~db.observations[1].ad_price_equals_msrp
  /\ db.observations[2].ad_price_equals_msrp
  /\ Val(db.listings[<<1, "V1">>]).advertised_price = Some(3)

\* C36: first_seen_at and last_seen_at of a listing do not depend on the
\* order of application: two observations of the same (dealer_id, vin),
\* applied in either order, leave first_seen_at = the minimum and
\* last_seen_at = the maximum of the seen-times applied (those of the rows,
\* and those of the listing when it existed before).
FirstSeenOf(row) == IF row.first_seen_at = <<>> THEN row.observed_at ELSE row.first_seen_at[1]

LastSeenOf(row) == IF row.last_seen_at = <<>> THEN row.observed_at ELSE row.last_seen_at[1]

FirstSeenTimes ==
  {FirstSeenOf(replay.rows[1]), FirstSeenOf(replay.rows[2])}
    \cup (IF replay.before = <<>> THEN {} ELSE {replay.before[1].first_seen_at})

LastSeenTimes ==
  {LastSeenOf(replay.rows[1]), LastSeenOf(replay.rows[2])}
    \cup (IF replay.before = <<>> THEN {} ELSE {replay.before[1].last_seen_at})

C36_SeenOrderIndependent ==
  replay.op = "pair" =>
    /\ db.listings[KeyOf(replay.rows[1])][1].first_seen_at
         = replay.swapped[1].first_seen_at
    /\ db.listings[KeyOf(replay.rows[1])][1].last_seen_at
         = replay.swapped[1].last_seen_at
    /\ \A x \in FirstSeenTimes : db.listings[KeyOf(replay.rows[1])][1].first_seen_at <= x
    /\ db.listings[KeyOf(replay.rows[1])][1].first_seen_at \in FirstSeenTimes
    /\ \A x \in LastSeenTimes : db.listings[KeyOf(replay.rows[1])][1].last_seen_at >= x
    /\ db.listings[KeyOf(replay.rows[1])][1].last_seen_at \in LastSeenTimes

\* The later observation was applied first, onto a listing that did not
\* exist: the window is that of the two rows all the same.
C36_LaterRowFirst ==
  /\ replay.op = "pair"
  /\ replay.before = <<>>
  /\ replay.rows[1].observed_at = 2 /\ replay.rows[2].observed_at = 1
  /\ replay.rows[1].first_seen_at = <<>> /\ replay.rows[1].last_seen_at = <<>>
  /\ replay.rows[2].first_seen_at = <<>> /\ replay.rows[2].last_seen_at = <<>>
  /\ db.listings[<<1, "V2">>][1].first_seen_at = 1
  /\ db.listings[<<1, "V2">>][1].last_seen_at = 2

\* C37: a listing that reconcile creates has the source_rank of the row
\* whenever the row supplies one (any integer >= 0, 0 included), and 100
\* only when the row supplies none.
C37_NewRankStep ==
  (replay'.calls = replay.calls + 1 /\ replay'.op = "reconcile" /\ replay'.committed) =>
    \A i \in DOMAIN replay'.rows :
      (db.listings[KeyOf(replay'.rows[i])] = <<>> /\ Len(replay'.rows) = 1) =>
        db'.listings[KeyOf(replay'.rows[i])][1].source_rank =
          IF replay'.rows[i].source_rank = <<>> THEN <<100>>
          ELSE replay'.rows[i].source_rank

C37_NewListingRank == [][C37_NewRankStep]_vars

\* C38: a task that ends failed has changed no listing, vehicle,
\* observation or price event: the reconciler and the absence reconciler
\* are called only on the path at whose end the task is marked success.
StoreSteps == {"blob", "upsert", "absent"}

EndedFailed(ts, t) == t <= Len(ts) /\ ts[t].status = "failed"

C38_FailedTaskState ==
  \A t \in TaskIds :
    /\ (EndedFailed(tasks, t) \/ results[t] = "failed") => steps[t] \cap StoreSteps = {}
    /\ (steps[t] \cap StoreSteps # {} /\ tpc[t] = "done") =>
          tasks[t].status = "success" /\ results[t] = "success"

C38_FailedTaskStep ==
  \A t \in TaskIds :
    (EndedFailed(tasks', t) /\ ~EndedFailed(tasks, t)) => db' = db

C38_FailedTaskChangesNothing ==
  /\ [](C38_FailedTaskState)
  /\ [][C38_FailedTaskStep]_vars

\* One task of a job failed at its parser and changed nothing, while the
\* other reconciled its rows and ended success.
C38_FailedBesideReconciled ==
  /\ Len(tasks) = 2
  /\ \E t, u \in TaskIds :
       /\ EndedFailed(tasks, t) /\ steps[t] = {"parse"}
       /\ tasks[u].status = "success" /\ "upsert" \in steps[u]
  /\ Len(db.observations) > 0

\* C39: a reconcile batch with two rows for the same (dealer_id, vin), whose
\* listing does not exist yet, commits and leaves exactly one listing for
\* the key and two observations more, the second row being applied as an
\* update of the listing the first row created.
TwoRowsOfNewListing(rows) ==
  /\ Len(rows) = 2
  /\ KeyOf(rows[1]) = KeyOf(rows[2])
  /\ db.listings[KeyOf(rows[1])] = <<>>

C39_DuplicateKeyStep ==
  (replay'.calls = replay.calls + 1 /\ replay'.op = "reconcile"
     /\ TwoRowsOfNewListing(replay'.rows)) =>
    /\ replay'.committed
    /\ db'.listings[KeyOf(replay'.rows[1])] # <<>>
    /\ Len(db'.observations) = Len(db.observations) + 2

C39_DuplicateKeyBatchCommits == [][C39_DuplicateKeyStep]_vars

\* C40: the two misses must be consecutive.  A listing in status missing that
\* a scrape of its dealer and model observes again takes the observed
\* status; when that status is neither sold nor missing, the single absence
\* cycle that follows sets it to missing, not sold.  An observed status
\* sold is left sold by the absence cycle, an observed status missing is
\* made sold by it.
ScrapeStep == replay'.calls = replay.calls + 1 /\ replay'.op = "scrape" /\ replay'.committed

ObservedStatus(k) ==
  replay'.rows[CHOOSE i \in 1..Len(replay'.rows) : KeyOf(replay'.rows[i]) = k].status

C40_RevivedStep ==
  ScrapeStep =>
    \A k \in replay'.revived : StatusIn(db', k) = ObservedStatus(k)

C40_LapsedStep ==
  ScrapeStep =>
    \A k \in replay'.lapsed :
      StatusIn(db', k) = IF StatusIn(db, k) \in {"sold", "missing"} THEN "sold" ELSE "missing"

C40_MissesConsecutive == [][C40_RevivedStep /\ C40_LapsedStep]_vars

\* A listing that went missing, was observed by the next scrape and was
\* not observed by the one after is missing, not sold.
C40_MissingAgainAfterRevival ==
  /\ replay.op = "scrape"
  /\ replay.calls = 3
  /\ <<1, "V1">> \in replay.lapsed
  /\ StatusIn(db, <<1, "V1">>) = "missing"
  /\ Len(db.observations) = 1

\* C40 as stated: whatever status was observed, the single absence cycle
\* after the observation sets the listing to missing.
C40_LapsedMissingStep ==
  ScrapeStep => \A k \in replay'.lapsed : StatusIn(db', k) = "missing"

C40_OneMissAfterObservation == [][C40_RevivedStep /\ C40_LapsedMissingStep]_vars

====
